---- MODULE Spec2Model ----
(***************************************************************************)
(* A model of BioSimSpace.Process.Somd (python/BioSimSpace/Process/        *)
(* _somd.py): construction of the process object (platform and executable  *)
(* checks, file staging, configuration and argument generation), start(),  *)
(* the output accessors, and the external SOMD engine that writes the      *)
(* artifacts the accessors read; of the solvation functions of             *)
(* BioSimSpace.Solvent with their input validation and gmx pipeline; and   *)
(* of the requirements of BioSimSpace.Gateway.                             *)
(*                                                                         *)
(* Quantities are integers: times are femtoseconds, lambda values are      *)
(* tenths.  A configuration line "key = value ..." is the tuple            *)
(* <<key, value, ...>> of strings.                                         *)
(***************************************************************************)
EXTENDS Integers, Sequences, FiniteSets, TLC

VARIABLES
    inp,            \* the constructor's arguments and the environment it sees
    status,         \* "new" before construction, "ok" or the exception raised
    _exe,           \* self._exe
    _platform,      \* self._platform
    _config,        \* self._config: the configuration lines
    _args,          \* self._args: the ordered flag/value table
    _input_files,   \* self._input_files
    files,          \* the files that exist in the work directory
    _is_queued,     \* self._is_queued
    _is_blocked,    \* self._is_blocked
    _process,       \* self._process: "None", "running", "exit0", "exit1"
    _command,       \* self._command: <<>> (unset) or <<exe, argument string>>
    readme,         \* the command recorded in README.txt (<<>>: none)
    cwd,            \* the current directory: "caller", "work_dir", "solvate_dir"
    gradFile,       \* the lines of gradients.dat
    offset,         \* the read offset pygtail keeps in gradients.dat.offset
    _gradients,     \* self._gradients
    nFrames,        \* the frames held by traj000000001.dcd
    runs,           \* how many children have been spawned
    nWritten,       \* how many gradient lines the engine has written in all
    pc,             \* the calling thread: "idle" or "waiting" (inside wait())
    call,           \* the call the thread is blocked in
    lastOp,         \* the last step taken: the operation and what it returned
    lastSeries,     \* what getGradient(time_series=True) last returned and how
                    \* often (up to 2), while gradients.dat has not changed
    cfgFile,        \* the configuration file <name>.cfg: absent, or its lines
    heap,           \* the system objects: reference |-> molecules
    steps,          \* the effects of the last start(), in the order they happened
    _defaults,      \* the default property-map object of each function
    requirement,    \* a Gateway requirement: its class and constraints
    _value          \* the requirement's self._value

ctorVars == <<inp, status, _exe, _platform, _config, _args, _input_files,
              cfgFile, heap>>
runVars  == <<files, _is_queued, _is_blocked, _process, _command, readme, cwd,
              gradFile, offset, _gradients, nFrames, runs, nWritten, pc, call,
              lastOp, lastSeries, steps>>
libVars  == <<_defaults, requirement, _value>>
vars     == <<inp, status, _exe, _platform, _config, _args, _input_files,
              files, _is_queued, _is_blocked, _process, _command, readme, cwd,
              gradFile, offset, _gradients, nFrames, runs, nWritten, pc, call,
              lastOp, lastSeries, cfgFile, heap, steps, _defaults,
              requirement, _value>>

----------------------------------------------------------------------------
(* Bounds of the model. *)

\* The lines the engine appends to gradients.dat over all runs.
MaxLines == 2
\* The frames the engine appends to the trajectory during one run.
MaxFrames == 1
\* The children spawned over the life of one process object.
MaxRuns == 2

----------------------------------------------------------------------------
(* Program constants. *)

\* MD steps per SOMD cycle: the divisor of the cycle count and the factor of
\* the time records.
StepsPerCycle == 100

Max(a, b) == IF a >= b THEN a ELSE b

\* A cycle count that rounds down.
Ceil_floor(a, b) == a \div b

\* math.ceil(a / b) for positive integers.
Ceil(a, b) == (a + b - 1) \div b

RECURSIVE Join(_)
\* "".join(chars): the string a sequence of characters spells.
Join(chars) == IF chars = <<>> THEN "" ELSE Head(chars) \o Join(Tail(chars))

\* The work-directory file names (name = "somd").
RstFile    == "somd.rst7"
TopFile    == "somd.prm7"
ConfigFile == "somd.cfg"
PertFile   == "somd.pert"
StdoutFile == "somd.out"
StderrFile == "somd.err"
ReadmeFile == "README.txt"
TrajFile   == "traj000000001.dcd"
GradientFile == "gradients.dat"

----------------------------------------------------------------------------
(* The platform argument. *)

\* str.upper() on one character.
Upper(c) ==
    CASE c = "c" -> "C" [] c = "p" -> "P" [] c = "u" -> "U" [] c = "d" -> "D"
      [] c = "a" -> "A" [] c = "o" -> "O" [] c = "e" -> "E" [] c = "n" -> "N"
      [] c = "l" -> "L" [] c = "g" -> "G" [] OTHER -> c

\* A normalisation that upper-cases but keeps the spaces.
Normalise_keepSpaces(chars) == [k \in DOMAIN chars |-> Upper(chars[k])]

RECURSIVE Normalise(_)
\* platform.replace(" ", "").upper()
Normalise(chars) ==
    IF chars = <<>> THEN <<>>
    ELSE IF Head(chars) = " " THEN Normalise(Tail(chars))
    ELSE <<Upper(Head(chars))>> \o Normalise(Tail(chars))

\* Somd._platforms: the supported platforms and their OpenMM keyword.
_platforms ==
    [k \in {"CPU", "CUDA", "OPENCL"} |->
        CASE k = "CPU" -> "CPU" [] k = "CUDA" -> "CUDA" [] k = "OPENCL" -> "OpenCL"]

\* The platform check of the constructor: the exception raised, or "ok" and
\* the keyword stored in self._platform.
PlatformCheck(platform) ==
    IF ~platform.isStr THEN [status |-> "TypeError", platform |-> ""]
    ELSE LET p == Join(Normalise(platform.chars))
         IN IF p \notin DOMAIN _platforms
            THEN [status |-> "ValueError", platform |-> ""]
            ELSE [status |-> "ok", platform |-> _platforms[p]]

\* The executable lookup of the constructor.
ExeCheck(i) ==
    IF i.exe = "None"
    THEN LET somd_exe == IF i.protocol = "FreeEnergy"
                         THEN "bin/somd-freenrg" ELSE "bin/somd"
         IN IF ~i.bundledIsFile
            THEN [status |-> "MissingSoftwareError", exe |-> ""]
            ELSE [status |-> "ok", exe |-> somd_exe]
    ELSE IF i.exeIsFile THEN [status |-> "ok", exe |-> i.exe]
         ELSE [status |-> "IOError", exe |-> ""]

----------------------------------------------------------------------------
(* Configuration generation. *)

Range(s) == {s[k] : k \in DOMAIN s}

\* Process.setConfig: replace the configuration by the lines given.
setConfig(lines) == lines

\* The cycle count: math.ceil((run_time / time_step) / 100).
NCycles(i) == Ceil(i.runTime, i.timeStep * StepsPerCycle)

\* A cut-off policy that looks at the box only, not at the water.
CutoffLines_boxOnly(i) ==
    << IF ~i.has_box
       THEN <<"cutoff type", "cutoffnonperiodic">>
       ELSE <<"cutoff type", "cutoffperiodic">>,
       <<"cutoff distance", "10 angstrom">> >>

\* The cut-off lines every generated protocol ends its force-field block with.
CutoffLines(i) ==
    << IF ~i.has_box \/ ~i.has_water
       THEN <<"cutoff type", "cutoffnonperiodic">>
       ELSE <<"cutoff type", "cutoffperiodic">>,
       <<"cutoff distance", "10 angstrom">> >>

\* The reaction-field dielectric line: solvated box or vacuum.
DielectricLines(i) ==
    << IF i.has_water THEN <<"reaction field dielectric", "78.3">>
       ELSE <<"reaction field dielectric", "82.0">> >>

\* A barostat policy that looks at the water only, not at the box.
BarostatLines_waterOnly(i) ==
    IF i.ensemble = "NVT" THEN << <<"barostat", "False">> >>
    ELSE IF i.has_water
         THEN << <<"barostat", "True">>, <<"pressure", "1 atm">> >>
         ELSE << <<"barostat", "False">> >>

\* The barostat lines of the Production and FreeEnergy protocols.
BarostatLines(i) ==
    IF i.ensemble = "NVT" THEN << <<"barostat", "False">> >>
    ELSE IF i.has_water /\ i.has_box
         THEN << <<"barostat", "True">>, <<"pressure", "1 atm">> >>
         ELSE << <<"barostat", "False">> >>

\* The random-seed line, when the process was seeded.
SeedLines(i) ==
    IF i.is_seeded THEN << <<"random seed", ToString(i.seed)>> >> ELSE <<>>

\* The lines the dynamics protocols share up to the temperature.
DynamicsLines(i, energy) ==
    << <<"ncycles", ToString(NCycles(i))>>, <<"nmoves", "100">> >>
    \o (IF energy THEN << <<"energy frequency", "100">> >> ELSE <<>>)
    \o << <<"save coordinates", "True">>,
          <<"buffered coordinates frequency", "100">>,
          <<"timestep", ToString(i.timeStep) \o ".00 femtosecond">>,
          <<"thermostat", "True">>,
          <<"temperature", ToString(i.temperature) \o ".00 kelvin">> >>

\* ", ".join([str(x) for x in getLambdaValues()]): one string per value.
LambdaArray(vals) == [k \in DOMAIN vals |-> ToString(vals[k])]

\* A generator that accepts every equilibration.
_generate_config_lenient(i) ==
    IF i.protocol \in {"Minimisation", "Equilibration", "Production", "FreeEnergy"}
    THEN [status |-> "ok", config |-> DynamicsLines(i, FALSE) \o CutoffLines(i)]
    ELSE [status |-> "IncompatibleError", config |-> <<>>]

\* Somd._generate_config: the exception raised, or "ok" and the lines.
_generate_config(i) ==
    CASE i.protocol = "Minimisation" ->
           [status |-> "ok", config |->
              << <<"minimise", "True">>,
                 <<"minimise maximum iterations", ToString(i.steps)>>,
                 <<"minimise tolerance", "1">>,
                 <<"ncycles", "1">>,
                 <<"nmoves", "1">>,
                 <<"save coordinates", "True">> >>
              \o CutoffLines(i)]
      [] i.protocol = "Equilibration" ->
           IF ~i.constTemp \/ i.restrained
           THEN [status |-> "IncompatibleError", config |-> <<>>]
           ELSE [status |-> "ok", config |->
                   DynamicsLines(i, FALSE)
                   \o << <<"barostat", "False">> >>
                   \o DielectricLines(i) \o CutoffLines(i) \o SeedLines(i)]
      [] i.protocol = "Production" ->
           [status |-> "ok", config |->
              DynamicsLines(i, FALSE) \o BarostatLines(i)
              \o DielectricLines(i) \o CutoffLines(i) \o SeedLines(i)]
      [] i.protocol = "FreeEnergy" ->
           [status |-> "ok", config |->
              DynamicsLines(i, TRUE) \o BarostatLines(i)
              \o DielectricLines(i) \o CutoffLines(i) \o SeedLines(i)
              \o << <<"lambda array">> \o LambdaArray(i.lambdaVals),
                    <<"lambda_val", ToString(i.lambda)>> >>]
      [] OTHER -> [status |-> "IncompatibleError", config |-> <<>>]

----------------------------------------------------------------------------
(* Command-line arguments. *)

\* Process.setArg: set the value of a flag, keeping the insertion order.
setArg(args, flag, value) ==
    IF \E k \in DOMAIN args : args[k][1] = flag
    THEN [k \in DOMAIN args |->
            IF args[k][1] = flag THEN <<flag, value>> ELSE args[k]]
    ELSE Append(args, <<flag, value>>)

\* Process.clearArgs: empty the table.
clearArgs(args) == <<>>

\* A generator that offers the perturbation file to every engine.
_generate_args_alwaysPert(args, protocol, platform) ==
    LET a1 == setArg(clearArgs(args), "-c", RstFile)
        a2 == setArg(a1, "-t", TopFile)
        a3 == setArg(a2, "-m", PertFile)
        a4 == setArg(a3, "-C", ConfigFile)
    IN setArg(a4, "-p", platform)

\* Somd._generate_args: the table args is cleared, then rebuilt.
_generate_args(args, protocol, platform) ==
    LET a0 == clearArgs(args)
        a1 == setArg(a0, "-c", RstFile)
        a2 == setArg(a1, "-t", TopFile)
        a3 == IF protocol = "FreeEnergy" THEN setArg(a2, "-m", PertFile) ELSE a2
        a4 == setArg(a3, "-C", ConfigFile)
    IN setArg(a4, "-p", platform)

RECURSIVE getArgStringList(_)
\* Process.getArgStringList: the flags and values in table order.
getArgStringList(args) ==
    IF args = <<>> THEN <<>> ELSE Head(args) \o getArgStringList(Tail(args))

----------------------------------------------------------------------------
(* File staging and construction. *)

\* The configuration file before anything wrote it.
NoFile == [exists |-> FALSE, lines |-> <<>>]

\* Process.writeConfig: the file holds the configuration lines, one per line.
writeConfig(config) == [exists |-> TRUE, lines |-> config]

\* The result of a constructor step that raised.
Raised(exc, written, input_files) ==
    [status |-> exc, written |-> written, config |-> <<>>, args |-> <<>>,
     input_files |-> input_files, cfg |-> NoFile]

\* The molecules of the system passed to the constructor: the name of the
\* first residue of each water molecule, and the perturbable molecules.
SystemOf(i) ==
    [waters |-> i.waters, pert |-> [k \in 1..i.nPert |-> "merged"]]

\* The system objects before _setup: reference 1 is the object the caller
\* holds, which is also the object self._system refers to.
CallerHeap(i) == (1 :> SystemOf(i))

\* A wrapper that shares the object it is given.
_System_alias(h, r) == [heap |-> h, ref |-> r]

\* _System(self._system): a new object holding a copy of the molecules.
_System(h, r) ==
    LET new == Cardinality(DOMAIN h) + 1
    IN [heap |-> h @@ (new :> h[r]), ref |-> new]

\* remove() and add() of the perturbable molecule: the first one is replaced
\* by its lambda = 0 state.
ReplacePerturbable(h, r) ==
    [h EXCEPT ![r].pert = [k \in DOMAIN @ |-> IF k = 1 THEN "lambda0" ELSE @[k]]]

\* The loop over the water molecules: the first residue of each is renamed.
RenameWaters(h, r) ==
    [h EXCEPT ![r].waters = [k \in DOMAIN @ |-> "WAT"]]

\* The perturbable-molecule check of _setup; FALSE raises the ValueError.
SinglePerturbable_any(i) == TRUE
SinglePerturbable(i) == i.nPert = 1

\* The head of _setup: the system is copied, and the substitutions are made
\* in the object the local name "system" refers to.  ref is that object, the
\* one the coordinate and topology files are written from.
StageSystem(i) ==
    LET c == _System(CallerHeap(i), 1)
    IN IF i.protocol = "FreeEnergy" /\ ~SinglePerturbable(i)
       THEN c
       ELSE LET h1 == IF i.protocol = "FreeEnergy"
                      THEN ReplacePerturbable(c.heap, c.ref) ELSE c.heap
            IN [heap |-> RenameWaters(h1, c.ref), ref |-> c.ref]

\* A _setup that adds the seed line to a custom configuration.
SetupWrite_customSeeded(i, platform, written, input_files) ==
    IF ~i.rstOK THEN Raised("IOError", written, input_files)
    ELSE IF ~i.prmOK
    THEN Raised("IOError", Append(written, RstFile), input_files)
    ELSE LET w2 == written \o <<RstFile, TopFile>>
             g  == IF i.protocol = "Custom"
                   THEN [status |-> "ok",
                         config |-> setConfig(i.custom) \o SeedLines(i)]
                   ELSE _generate_config(i)
         IN IF g.status # "ok" THEN Raised(g.status, w2, input_files)
            ELSE [status |-> "ok",
                  written |-> Append(w2, ConfigFile),
                  config |-> g.config,
                  args |-> _generate_args(<<>>, i.protocol, platform),
                  input_files |-> input_files,
                  cfg |-> writeConfig(g.config)]

\* The tail of _setup, from the coordinate file on.
SetupWrite(i, platform, written, input_files) ==
    IF ~i.rstOK THEN Raised("IOError", written, input_files)
    ELSE IF ~i.prmOK
    THEN Raised("IOError", Append(written, RstFile), input_files)
    ELSE LET w2 == written \o <<RstFile, TopFile>>
             g  == IF i.protocol = "Custom"
                   THEN [status |-> "ok", config |-> setConfig(i.custom)]
                   ELSE _generate_config(i)
         IN IF g.status # "ok" THEN Raised(g.status, w2, input_files)
            ELSE [status |-> "ok",
                  written |-> Append(w2, ConfigFile),
                  config |-> g.config,
                  args |-> _generate_args(<<>>, i.protocol, platform),
                  input_files |-> input_files,
                  cfg |-> writeConfig(g.config)]

\* Somd._setup: stage the input files, generate the configuration and the
\* arguments.  written lists the files in the order they are written.
_setup(i, platform) ==
    LET input_files == <<ConfigFile, RstFile, TopFile>>
    IN (IF i.protocol = "FreeEnergy"
        THEN IF SinglePerturbable(i)
             THEN SetupWrite(i, platform, <<PertFile>>,
                             Append(input_files, PertFile))
             ELSE Raised("ValueError", <<>>, input_files)
        ELSE SetupWrite(i, platform, <<>>, input_files))
       @@ [heap |-> StageSystem(i).heap]

\* A constructor that stages the files before it looks for the executable.
Construct_setupFirst(i) ==
    LET p == PlatformCheck(i.platform)
    IN IF p.status # "ok"
       THEN Raised(p.status, <<>>, <<>>)
            @@ [exe |-> "", platform |-> "", heap |-> CallerHeap(i)]
       ELSE LET s == _setup(i, p.platform)
                e == ExeCheck(i)
            IN IF e.status # "ok"
               THEN [s EXCEPT !.status = e.status]
                    @@ [exe |-> "", platform |-> p.platform]
               ELSE s @@ [exe |-> e.exe, platform |-> p.platform]

\* Somd.__init__: the platform check, the executable lookup, then _setup.
Construct(i) ==
    LET p == PlatformCheck(i.platform)
    IN IF p.status # "ok"
       THEN Raised(p.status, <<>>, <<>>)
            @@ [exe |-> "", platform |-> "", heap |-> CallerHeap(i)]
       ELSE LET e == ExeCheck(i)
            IN IF e.status # "ok"
               THEN Raised(e.status, <<>>, <<>>)
                    @@ [exe |-> "", platform |-> p.platform,
                        heap |-> CallerHeap(i)]
               ELSE _setup(i, p.platform)
                    @@ [exe |-> e.exe, platform |-> p.platform]

----------------------------------------------------------------------------
(* The constructor's arguments. *)

\* The platform arguments tried: strings in any case and spacing, a string
\* that names no platform, and a value that is not a string.
PlatformInputs ==
    { [isStr |-> TRUE,  chars |-> <<"C", "P", "U">>],
      [isStr |-> TRUE,  chars |-> <<"c", "u", " ", "d", "a">>],
      [isStr |-> TRUE,  chars |-> <<"o", "p", "e", "n", "c", "l">>],
      [isStr |-> TRUE,  chars |-> <<" ", "O", "p", "e", "n", " ", "C", "L">>],
      [isStr |-> TRUE,  chars |-> <<"g", "p", "u">>],
      [isStr |-> FALSE, chars |-> <<>>] }

Protocols == {"Minimisation", "Equilibration", "Production", "FreeEnergy", "Custom"}

\* The protocol parameters that do not vary in this model.
BaseInput ==
    [protocol |-> "Production", platform |-> [isStr |-> TRUE, chars |-> <<"C", "P", "U">>],
     exe |-> "None", exeIsFile |-> FALSE, bundledIsFile |-> TRUE,
     nPert |-> 0, rstOK |-> TRUE, prmOK |-> TRUE,
     has_box |-> TRUE, has_water |-> TRUE, is_seeded |-> FALSE, seed |-> 42,
     steps |-> 100, runTime |-> 1000, timeStep |-> 2, temperature |-> 300,
     ensemble |-> "NPT", constTemp |-> TRUE, restrained |-> FALSE,
     lambdaVals |-> <<0, 5, 10>>, lambda |-> 5,
     waters |-> <<"HOH", "WAT">>,
     custom |-> << <<"nmoves", "7">>, <<"ncycles", "3">> >>]

\* The constructor calls of the construction specification.
CtorInputs ==
    { [BaseInput EXCEPT !.protocol = pr, !.platform = pl, !.exe = ex[1],
                        !.exeIsFile = ex[2], !.bundledIsFile = ex[3],
                        !.nPert = np, !.rstOK = ok[1], !.prmOK = ok[2],
                        !.is_seeded = sd, !.lambdaVals = lv,
                        !.constTemp = eq[1], !.restrained = eq[2]] :
        pr \in Protocols \cup {"Unsupported"},
        pl \in PlatformInputs,
        ex \in {<<"None", FALSE, TRUE>>, <<"None", FALSE, FALSE>>,
                <<"/opt/somd", TRUE, FALSE>>, <<"/opt/somd", FALSE, TRUE>>},
        np \in 0..2,
        ok \in {<<TRUE, TRUE>>, <<FALSE, TRUE>>, <<TRUE, FALSE>>},
        sd \in BOOLEAN,
        lv \in {<<0, 5, 10>>, <<10, 0>>},
        eq \in {<<TRUE, FALSE>>, <<FALSE, FALSE>>, <<TRUE, TRUE>>} }

\* The constructor calls behind the processes of the run specification.
RunInputs ==
    { [BaseInput EXCEPT !.protocol = pr, !.nPert = IF pr = "FreeEnergy" THEN 1 ELSE 0] :
        pr \in Protocols }

----------------------------------------------------------------------------
(* Values returned by the operations. *)

None        == [tag |-> "None", val |-> <<>>]
Self        == [tag |-> "self", val |-> <<>>]
List(s)     == [tag |-> "list", val |-> s]
Value(x)    == [tag |-> "value", val |-> <<x>>]
Raise(exc)  == [tag |-> exc, val |-> <<>>]
TrajectoryObj(n) == [tag |-> "Trajectory", val |-> <<n>>]
SystemObj(n) == [tag |-> "System", val |-> <<n>>]
Unknown     == [tag |-> "unknown", val |-> <<>>]

\* No series has been returned since gradients.dat last changed.
NoSeries == [ret |-> Unknown, n |-> 0]
\* The series r has been returned once more.
Again(last, r) == [ret |-> r, n |-> IF last.n >= 1 THEN 2 ELSE 1]

NoCall   == [op |-> "none", ts |-> FALSE, block |-> "False"]
EngineOp == [op |-> "engine", ts |-> FALSE, block |-> "False", ret |-> None]
Done(c, r) == [op |-> c.op, ts |-> c.ts, block |-> c.block, ret |-> r]

GradOps == {"getGradient"}
TimeOps == {"getTime"}
SystemOps == {"getSystem"}

\* The calls the caller makes on a constructed process.  getSystem, getTime
\* and getGradient with block=False are the calls getCurrentSystem,
\* getCurrentTime and getCurrentGradient make.
Calls ==
    { [op |-> "getTrajectory", ts |-> FALSE, block |-> b] :
        b \in {"True", "False", "AUTO"} }
    \cup { [op |-> "getSystem", ts |-> FALSE, block |-> b] : b \in {"True", "AUTO"} }
    \cup { [op |-> o, ts |-> t, block |-> b] :
        o \in {"getTime", "getGradient"}, t \in BOOLEAN, b \in {"True", "AUTO"} }
    \cup { [op |-> "wait", ts |-> FALSE, block |-> "True"] }

----------------------------------------------------------------------------
(* State outside the process object: the default property maps of the
   functions, and a Gateway requirement. *)

\* The functions whose property-map parameter has the default {}.
Functions == {"solvate", "spc", "Somd.__init__"}

\* A property map is a set of <<property, name>> pairs.
EmptyMap == {}

\* No requirement has been created.
NoRequirement == [class |-> "none"]

\* The module has been imported; no function has been called.
LibInit ==
    /\ _defaults = [f \in Functions |-> EmptyMap]
    /\ requirement = NoRequirement
    /\ _value = None

----------------------------------------------------------------------------
(* The gradient file and its incremental read. *)

\* Line k of the gradient file of run r: a "#" comment, or a step count
\* followed by the gradient.  The gradient names the run and the line.
GradLine(r, k, comment) ==
    [comment |-> comment, tokens |-> <<k * StepsPerCycle, 10 * r + k>>]

\* line.rstrip().split()[-1]
LastToken(line) == line.tokens[Len(line.tokens)]

\* The samples of the lines read: comments are ignored.
ParseLines(lines) ==
    LET data == SelectSeq(lines, LAMBDA l : ~l.comment)
    IN [k \in DOMAIN data |-> LastToken(data[k])]

\* The offsets pygtail may resume from.  The offset file outlives the
\* gradient file: when gradients.dat has been deleted and written again
\* since the offset was saved, pygtail resumes from the saved offset unless
\* it takes the file for a rotated log and starts over.
PygtailStarts_reread(c, off, r) == {0}
PygtailStarts(c, off, r) ==
    IF c.op \in GradOps /\ off.pos > 0 /\ off.run # r THEN {off.pos, 0} ELSE {off.pos}

\* for line in pygtail.Pygtail(file): the lines from the offset to the end.
PygtailLines(file, from) ==
    IF from >= Len(file) THEN <<>> ELSE SubSeq(file, from + 1, Len(file))

\* A getGradient whose single value is the first sample.
ReadGradient_first(ts, from) ==
    LET g == _gradients \o ParseLines(PygtailLines(gradFile, from))
    IN [gradients |-> g,
        offset |-> [pos |-> Max(from, Len(gradFile)), run |-> runs],
        ret |-> IF Len(g) = 0 THEN None
                ELSE IF ts THEN List(g) ELSE Value(g[1])]

\* Somd.getGradient past the missing-file check: the new lines are parsed and
\* appended, the offset is saved, and the series or its last sample returned.
ReadGradient(ts, from) ==
    LET g == _gradients \o ParseLines(PygtailLines(gradFile, from))
    IN [gradients |-> g,
        offset |-> [pos |-> Max(from, Len(gradFile)), run |-> runs],
        ret |-> IF Len(g) = 0 THEN None
                ELSE IF ts THEN List(g) ELSE Value(g[Len(g)])]

----------------------------------------------------------------------------
(* The process state. *)

\* Process.isQueued
isQueued == _is_queued

\* Process.isRunning: a child exists and has not exited.
isRunning == _process = "running"

\* Process.isError: the child exited with a nonzero status.
isError == _process = "exit1"

\* The state of the process as the caller sees it.
State ==
    CASE _process = "running" -> "Running"
      [] _process = "exit0"   -> "Finished"
      [] _process = "exit1"   -> "Errored"
      [] OTHER -> IF _is_queued THEN "Queued" ELSE "NotStarted"

----------------------------------------------------------------------------
(* start() *)

\* The early returns of start(): the process is queued, or a child exists
\* and is running.
StartIsNoop_queuedOnly == isQueued
StartIsNoop_runningOnly == _process # "None" /\ isRunning
StartIsNoop == isQueued \/ (_process # "None" /\ isRunning)

\* Process._clear_output: reset the captured stdout and stderr.
Process_clear_output(fs) == fs

\* Somd._clear_output: the files left after the restart, trajectory and,
\* for a free-energy protocol, gradient and energy files are deleted.
_clear_output(fs) ==
    (Process_clear_output(fs) \ {"sim_restart.s3", "SYSTEM.s3", TrajFile})
    \ (IF inp.protocol = "FreeEnergy" THEN {GradientFile, "simfile.dat"} ELSE {})

\* "%s " % self._exe + self.getArgString()
CommandLine == <<_exe>> \o getArgStringList(_args)

\* The directory the caller is left in by a start() that went past its early
\* returns: the chdir back is the last statement, reached only if nothing
\* before it raised.
DirAfterStart(dir, completed) == IF completed THEN dir ELSE "work_dir"

\* A start() that spawns the child before it writes the command log.
StartSteps_spawnFirst(readmeOK, spawnOK, stderrOK) ==
    <<"_clear_output", "chdir">>
    \o (IF ~spawnOK THEN <<>>
        ELSE <<"timer", "spawn">>
             \o (IF ~readmeOK THEN <<>>
                 ELSE <<"README.txt">>
                      \o (IF ~stderrOK THEN <<>> ELSE <<"stderr", "chdir back">>)))

\* The effects of a start() that went past its early returns, in statement
\* order, up to the statement that raised.
StartSteps(readmeOK, spawnOK, stderrOK) ==
    <<"_clear_output", "chdir">>
    \o (IF ~readmeOK THEN <<>>
        ELSE <<"README.txt", "timer">>
             \o (IF ~spawnOK THEN <<>>
                 ELSE <<"spawn">>
                      \o (IF ~stderrOK THEN <<>> ELSE <<"stderr", "chdir back">>)))

\* Somd.start.  readmeOK, spawnOK and stderrOK say whether README.txt could
\* be opened for writing, whether Sire.Base.Process.run returned, and whether
\* the stderr notice could be written.
start(readmeOK, spawnOK, stderrOK) ==
    /\ status = "ok"
    /\ pc = "idle"
    /\ IF StartIsNoop
       THEN /\ lastOp' = Done([op |-> "start", ts |-> FALSE, block |-> "False"], None)
            /\ UNCHANGED <<files, _process, _command, readme, cwd, gradFile,
                           nFrames, runs, lastSeries, steps>>
       ELSE /\ runs < MaxRuns
            /\ LET cleared == _clear_output(files)
                   spawned == readmeOK /\ spawnOK
                   completed == readmeOK /\ spawnOK /\ stderrOK
               IN /\ files' = cleared
                              \cup (IF readmeOK THEN {ReadmeFile} ELSE {})
                              \cup (IF spawned THEN {StdoutFile} ELSE {})
                              \cup (IF completed THEN {StderrFile} ELSE {})
                  /\ gradFile' = IF GradientFile \in cleared THEN gradFile ELSE <<>>
                  /\ nFrames' = 0
                  /\ lastSeries' = IF GradientFile \in files /\ GradientFile \notin cleared
                                   THEN NoSeries ELSE lastSeries
                  /\ _command' = IF readmeOK THEN CommandLine ELSE _command
                  /\ readme' = IF readmeOK THEN CommandLine ELSE readme
                  /\ _process' = IF spawned THEN "running" ELSE _process
                  /\ runs' = IF spawned THEN runs + 1 ELSE runs
                  /\ cwd' = DirAfterStart(cwd, completed)
                  /\ steps' = StartSteps(readmeOK, spawnOK, stderrOK)
                  /\ lastOp' = Done([op |-> "start", ts |-> FALSE, block |-> "False"],
                                    IF completed THEN Self ELSE Raise("OSError"))
    /\ UNCHANGED <<_is_queued, _is_blocked, offset, _gradients, nWritten, pc, call>>
    /\ UNCHANGED ctorVars
    /\ UNCHANGED libVars

----------------------------------------------------------------------------
(* The SOMD engine: the child process.  It appends to its output files while
   it runs and then exits. *)

\* The engine appends one line to gradients.dat (somd-freenrg only).
EngineWriteGradient(comment) ==
    /\ isRunning
    /\ inp.protocol = "FreeEnergy"
    /\ nWritten < MaxLines
    /\ nWritten' = nWritten + 1
    /\ gradFile' = Append(gradFile, GradLine(runs, Len(gradFile) + 1, comment))
    /\ files' = files \cup {GradientFile}
    /\ lastSeries' = NoSeries
    /\ lastOp' = EngineOp
    /\ UNCHANGED <<_is_queued, _is_blocked, _process, _command, readme, cwd,
                   offset, _gradients, nFrames, runs, pc, call>>
    /\ UNCHANGED ctorVars
    /\ UNCHANGED <<steps, libVars>>

\* The engine appends one frame to the trajectory.
EngineWriteFrame ==
    /\ isRunning
    /\ nFrames < MaxFrames
    /\ nFrames' = nFrames + 1
    /\ files' = files \cup {TrajFile}
    /\ lastOp' = EngineOp
    /\ UNCHANGED <<_is_queued, _is_blocked, _process, _command, readme, cwd,
                   gradFile, offset, _gradients, runs, nWritten, pc, call,
                   lastSeries>>
    /\ UNCHANGED ctorVars
    /\ UNCHANGED <<steps, libVars>>

\* The engine exits, with status 0 or not.
EngineExit(code) ==
    /\ isRunning
    /\ _process' = code
    /\ lastOp' = EngineOp
    /\ UNCHANGED <<files, _is_queued, _is_blocked, _command, readme, cwd,
                   gradFile, offset, _gradients, nFrames, runs, nWritten, pc,
                   call, lastSeries>>
    /\ UNCHANGED ctorVars
    /\ UNCHANGED <<steps, libVars>>

----------------------------------------------------------------------------
(* The accessors. *)

\* The blocking policy of getTrajectory: wait() is called for block=True,
\* and for block="AUTO" when the process is flagged as blocking.
getTrajectoryWaits(block) == block = "True" \/ (block = "AUTO" /\ _is_blocked)

\* getGradient never calls wait(): its block argument is not read.
getGradientWaits(block) == FALSE

\* Whether the call reaches wait().
Waits(c) ==
    CASE c.op \in {"getTrajectory", "getSystem"} ->
           getTrajectoryWaits(c.block)
      [] c.op \in TimeOps ->
           inp.protocol # "Minimisation" /\ getTrajectoryWaits(c.block)
      [] c.op \in GradOps -> getGradientWaits(c.block)
      [] c.op = "wait" -> TRUE

\* Whether Trajectory(process=self) can fail: not once the child has exited
\* and left a trajectory file.
TrajectoryOutcomes(c) ==
    IF c.op \in GradOps \cup {"wait"} THEN {TRUE}
    ELSE IF c.op \in TimeOps /\ inp.protocol = "Minimisation" THEN {TRUE}
    ELSE IF TrajFile \in files /\ ~isRunning THEN {TRUE} ELSE {TRUE, FALSE}

\* Somd.getTrajectory after the wait: the object, or None if creating it raised.
getTrajectory(trajOK) == IF trajOK THEN TrajectoryObj(nFrames) ELSE None

\* Somd.getSystem: the last frame; any failure gives None.
getSystem(trajOK) ==
    LET traj == getTrajectory(trajOK)
    IN IF traj = None \/ traj.val[1] = 0 THEN None ELSE SystemObj(traj.val[1])

\* A getTime without the early return for minimisation protocols.
getTime_noMinimisationReturn(ts, trajOK) ==
    LET traj == getTrajectory(trajOK)
    IN IF traj = None THEN Raise("AttributeError")
       ELSE IF traj.val[1] = 0 THEN None
       ELSE IF ts THEN List([x \in 1..traj.val[1] |-> (StepsPerCycle * inp.timeStep) * x])
       ELSE Value((StepsPerCycle * inp.timeStep) * traj.val[1])

\* Somd.getTime: the time records, 100 steps apart.
getTime(ts, trajOK) ==
    IF inp.protocol = "Minimisation" THEN None
    ELSE LET traj == getTrajectory(trajOK)
         IN IF traj = None THEN Raise("AttributeError")
            ELSE LET num_frames == traj.val[1]
                     times == [x \in 1..num_frames |-> (StepsPerCycle * inp.timeStep) * x]
                 IN IF num_frames = 0 THEN None
                    ELSE IF inp.protocol = "Custom" THEN None
                    ELSE IF ts THEN List(times) ELSE Value(times[num_frames])

\* The body of an accessor, run once any wait is over.
Return(c, trajOK, from) ==
    /\ pc' = "idle"
    /\ call' = NoCall
    /\ IF c.op \in GradOps /\ GradientFile \in files
       THEN LET r == ReadGradient(c.ts, from)
            IN /\ _gradients' = r.gradients
               /\ offset' = r.offset
               /\ lastOp' = Done(c, r.ret)
               /\ lastSeries' = IF c.ts THEN Again(lastSeries, r.ret) ELSE lastSeries
       ELSE /\ UNCHANGED <<_gradients, offset>>
            /\ lastSeries' = IF c.op \in GradOps /\ c.ts
                             THEN Again(lastSeries, None) ELSE lastSeries
            /\ lastOp' = Done(c,
                 CASE c.op \in GradOps -> None
                   [] c.op \in TimeOps -> getTime(c.ts, trajOK)
                   [] c.op \in SystemOps -> getSystem(trajOK)
                   [] c.op = "getTrajectory" -> getTrajectory(trajOK)
                   [] c.op = "wait" -> None)
    /\ UNCHANGED <<files, _is_queued, _is_blocked, _process, _command, readme,
                   cwd, gradFile, nFrames, runs, nWritten>>
    /\ UNCHANGED ctorVars
    /\ UNCHANGED <<steps, libVars>>

\* The caller calls an accessor (or wait()): it blocks in wait() while the
\* child runs, otherwise the call returns at once.
Call(c) ==
    /\ status = "ok"
    /\ pc = "idle"
    /\ IF Waits(c) /\ isRunning
       THEN /\ pc' = "waiting"
            /\ call' = c
            /\ lastOp' = Done([op |-> "blocked", ts |-> c.ts, block |-> c.block], None)
            /\ UNCHANGED <<files, _is_queued, _is_blocked, _process, _command,
                           readme, cwd, gradFile, offset, _gradients, nFrames,
                           runs, nWritten, lastSeries>>
            /\ UNCHANGED ctorVars
            /\ UNCHANGED <<steps, libVars>>
       ELSE \E trajOK \in TrajectoryOutcomes(c), from \in PygtailStarts(c, offset, runs) :
                Return(c, trajOK, from)

\* Somd.getCurrentSystem: getSystem(block=False).
getCurrentSystem == Call([op |-> "getSystem", ts |-> FALSE, block |-> "False"])

\* Somd.getCurrentTime: getTime(time_series, block=False).
getCurrentTime(time_series) ==
    Call([op |-> "getTime", ts |-> time_series, block |-> "False"])

\* Somd.getCurrentGradient: getGradient(time_series, block=False).
getCurrentGradient(time_series) ==
    Call([op |-> "getGradient", ts |-> time_series, block |-> "False"])

\* A wait() that returns although the child is still running.
Resume_whileRunning ==
    /\ pc = "waiting"
    /\ \E trajOK \in TrajectoryOutcomes(call), from \in PygtailStarts(call, offset, runs) :
           Return(call, trajOK, from)

\* wait() returns once the child has exited, and the blocked call goes on.
Resume ==
    /\ pc = "waiting"
    /\ ~isRunning
    /\ \E trajOK \in TrajectoryOutcomes(call), from \in PygtailStarts(call, offset, runs) :
           Return(call, trajOK, from)

----------------------------------------------------------------------------
(* The specifications. *)

\* The state of the run variables, other than the staged files, before
\* start() is first called.
RunInit ==
    /\ _process = "None"
    /\ _command = <<>>
    /\ readme = <<>>
    /\ cwd = "caller"
    /\ gradFile = <<>>
    /\ offset = [pos |-> 0, run |-> 0]
    /\ _gradients = <<>>
    /\ nFrames = 0
    /\ runs = 0
    /\ nWritten = 0
    /\ pc = "idle"
    /\ call = NoCall
    /\ lastOp = Done(NoCall, None)
    /\ lastSeries = NoSeries
    /\ steps = <<>>
    /\ LibInit

\* The fields and files a constructor call leaves.
Constructed(i, c) ==
    /\ inp = i
    /\ files = Range(c.written)
    /\ status = c.status
    /\ _exe = c.exe
    /\ _platform = c.platform
    /\ _config = c.config
    /\ _args = c.args
    /\ _input_files = c.input_files
    /\ cfgFile = c.cfg
    /\ heap = c.heap

\* A constructed process: the state after Somd.__init__ returned.
Init ==
    /\ RunInit
    /\ _is_queued \in BOOLEAN
    /\ _is_blocked \in BOOLEAN
    /\ \E i \in RunInputs :
         /\ Constructed(i, Construct(i))
         /\ status = "ok"

\* The steps of the engine and of the caller other than start().
Others ==
    \/ \E comment \in BOOLEAN : EngineWriteGradient(comment)
    \/ EngineWriteFrame
    \/ \E code \in {"exit0", "exit1"} : EngineExit(code)
    \/ \E c \in Calls : Call(c)
    \/ getCurrentSystem
    \/ \E time_series \in BOOLEAN : getCurrentTime(time_series)
    \/ \E time_series \in BOOLEAN : getCurrentGradient(time_series)
    \/ Resume

\* The work directory accepts every write of start().
Next ==
    \/ start(TRUE, TRUE, TRUE)
    \/ Others

Spec == Init /\ [][Next]_vars

\* The ways start() can be cut short by the file system or the spawn.
StartOutcomes ==
    {<<FALSE, TRUE, TRUE>>, <<TRUE, FALSE, TRUE>>, <<TRUE, TRUE, FALSE>>,
     <<TRUE, TRUE, TRUE>>}

\* Any write of start() may fail.
NextIO ==
    \/ \E o \in StartOutcomes : start(o[1], o[2], o[3])
    \/ Others

SpecIO == Init /\ [][NextIO]_vars

\* The caller only starts the process, with any outcome of the writes, while
\* the engine writes frames and exits.
NextStart ==
    \/ \E o \in StartOutcomes : start(o[1], o[2], o[3])
    \/ EngineWriteFrame
    \/ \E code \in {"exit0", "exit1"} : EngineExit(code)

SpecStart == Init /\ [][NextStart]_vars

\* The artifacts of a run that _clear_output knows by name.
RunArtifacts ==
    {"sim_restart.s3", "SYSTEM.s3", TrajFile, GradientFile, "simfile.dat"}

\* A process constructed in a work directory that is either fresh or holds
\* the artifacts of an earlier free-energy run made there: a trajectory of
\* one frame and a gradient file of one line.
InitReuse ==
    /\ _process = "None"
    /\ _command = <<>>
    /\ readme = <<>>
    /\ cwd = "caller"
    /\ offset = [pos |-> 0, run |-> 0]
    /\ _gradients = <<>>
    /\ runs = 0
    /\ nWritten = 0
    /\ pc = "idle"
    /\ call = NoCall
    /\ lastOp = Done(NoCall, None)
    /\ lastSeries = NoSeries
    /\ steps = <<>>
    /\ LibInit
    /\ _is_queued = FALSE
    /\ _is_blocked \in BOOLEAN
    /\ \E i \in RunInputs, stale \in {{}, RunArtifacts} :
         LET c == Construct(i)
         IN /\ inp = i
            /\ status = "ok"
            /\ c.status = "ok"
            /\ _exe = c.exe
            /\ _platform = c.platform
            /\ _config = c.config
            /\ _args = c.args
            /\ _input_files = c.input_files
            /\ cfgFile = c.cfg
            /\ heap = c.heap
            /\ files = Range(c.written) \cup stale
            /\ nFrames = IF TrajFile \in stale THEN 1 ELSE 0
            /\ gradFile = IF GradientFile \in stale
                          THEN <<GradLine(0, 1, FALSE)>> ELSE <<>>

SpecReuse == InitReuse /\ [][Next]_vars

\* Process.wait called by the caller.
wait == Call([op |-> "wait", ts |-> FALSE, block |-> "True"])

\* The caller only starts the process and waits for it.
NextWait ==
    \/ start(TRUE, TRUE, TRUE)
    \/ \E comment \in BOOLEAN : EngineWriteGradient(comment)
    \/ EngineWriteFrame
    \/ \E code \in {"exit0", "exit1"} : EngineExit(code)
    \/ wait
    \/ Resume

\* wait() polls the child: once the child has exited, the waiting thread is
\* not held back for ever.
SpecWait == Init /\ [][NextWait]_vars /\ WF_vars(Resume)

\* Before construction: the constructor's arguments are chosen.
InitNew ==
    /\ RunInit
    /\ files = {}
    /\ _is_queued = FALSE
    /\ _is_blocked = FALSE
    /\ inp \in CtorInputs
    /\ status = "new"
    /\ _exe = ""
    /\ _platform = ""
    /\ _config = <<>>
    /\ _args = <<>>
    /\ _input_files = <<>>
    /\ cfgFile = NoFile
    /\ heap = CallerHeap(inp)

\* Somd.__init__
DoConstruct ==
    /\ status = "new"
    /\ LET c == Construct(inp)
       IN /\ status' = c.status
          /\ _exe' = c.exe
          /\ _platform' = c.platform
          /\ _config' = c.config
          /\ _args' = c.args
          /\ _input_files' = c.input_files
          /\ files' = files \cup Range(c.written)
          /\ lastOp' = Done([op |-> "__init__", ts |-> FALSE, block |-> "False"],
                            IF c.status = "ok" THEN Self ELSE Raise(c.status))
          /\ cfgFile' = c.cfg
          /\ heap' = c.heap
    /\ UNCHANGED <<inp, _is_queued, _is_blocked, _process, _command, readme, cwd,
                   gradFile, offset, _gradients, nFrames, runs, nWritten, pc,
                   call, lastSeries, steps>>
    /\ UNCHANGED libVars

NextCtor == DoConstruct

SpecCtor == InitNew /\ [][NextCtor]_vars

----------------------------------------------------------------------------
(* Setup passes: the configuration and argument generators run again on a
   constructed process. *)

\* The raw lines a Custom protocol may carry: none, lines in an order of the
\* caller's choosing, a repeated line, and lines with the generator's keys.
CustomConfigs ==
    { <<>>,
      << <<"nmoves", "7">>, <<"ncycles", "3">> >>,
      << <<"ncycles", "3">>, <<"nmoves", "7">> >>,
      << <<"ncycles", "3">>, <<"ncycles", "3">> >>,
      << <<"cutoff distance", "8 angstrom">>, <<"random seed", "7">>,
         <<"cutoff type", "cutoffperiodic">> >> }

\* The constructor calls of the setup specification: every protocol, with
\* and without box, water, seed and barostat, and run times that are and
\* are not whole numbers of cycles (50, 5.25, 10 and 0.75 cycles).
SetupInputs ==
    { [BaseInput EXCEPT !.protocol = pr, !.platform = pl,
                        !.nPert = IF pr = "FreeEnergy" THEN 1 ELSE 0,
                        !.has_box = hb, !.has_water = hw, !.ensemble = en,
                        !.is_seeded = sd, !.runTime = rt[1], !.timeStep = rt[2],
                        !.constTemp = eq[1], !.restrained = eq[2],
                        !.waters = IF hw THEN <<"HOH", "SOL">> ELSE <<>>,
                        !.custom = IF pr = "Custom" THEN cu ELSE @] :
        pr \in Protocols \cup {"Unsupported"},
        pl \in { [isStr |-> TRUE, chars |-> <<"C", "P", "U">>],
                 [isStr |-> TRUE, chars |-> <<"c", "u", " ", "d", "a">>] },
        hb \in BOOLEAN, hw \in BOOLEAN, en \in {"NVT", "NPT"},
        sd \in BOOLEAN,
        rt \in {<<10000, 2>>, <<1050, 2>>, <<1000, 1>>, <<150, 2>>},
        eq \in {<<TRUE, FALSE>>, <<FALSE, FALSE>>, <<TRUE, TRUE>>},
        cu \in CustomConfigs }

InitSetup ==
    /\ RunInit
    /\ files = {}
    /\ _is_queued = FALSE
    /\ _is_blocked = FALSE
    /\ inp \in SetupInputs
    /\ status = "new"
    /\ _exe = ""
    /\ _platform = ""
    /\ _config = <<>>
    /\ _args = <<>>
    /\ _input_files = <<>>
    /\ cfgFile = NoFile
    /\ heap = CallerHeap(inp)

\* self._config = [] at the top of _generate_config.
ResetConfig_kept(config) == config
ResetConfig(config) == <<>>

\* Somd._generate_config called on a constructed process: the list is
\* emptied, then the lines are added until the end or a raise.
GenerateConfig ==
    /\ status = "ok"
    /\ LET g == _generate_config(inp)
       IN /\ _config' = ResetConfig(_config) \o g.config
          /\ lastOp' = Done([op |-> "_generate_config", ts |-> FALSE, block |-> "False"],
                            IF g.status = "ok" THEN None ELSE Raise(g.status))
    /\ UNCHANGED <<inp, status, _exe, _platform, _args, _input_files>>
    /\ UNCHANGED <<files, _is_queued, _is_blocked, _process, _command, readme,
                   cwd, gradFile, offset, _gradients, nFrames, runs, nWritten,
                   pc, call, lastSeries, steps, cfgFile, heap>>
    /\ UNCHANGED libVars

\* Somd._generate_args called on a constructed process.
GenerateArgs ==
    /\ status = "ok"
    /\ _args' = _generate_args(_args, inp.protocol, _platform)
    /\ lastOp' = Done([op |-> "_generate_args", ts |-> FALSE, block |-> "False"], None)
    /\ UNCHANGED <<inp, status, _exe, _platform, _config, _input_files>>
    /\ UNCHANGED <<files, _is_queued, _is_blocked, _process, _command, readme,
                   cwd, gradFile, offset, _gradients, nFrames, runs, nWritten,
                   pc, call, lastSeries, steps, cfgFile, heap>>
    /\ UNCHANGED libVars

\* The flags a caller adds or overrides through Process.setArg.
UserArgs == { <<"-x", "1">>, <<"-m", "other.pert">>, <<"-p", "Reference">> }

\* Process.setArg called by the user of the process.
UserSetArg(a) ==
    /\ status = "ok"
    /\ _args' = setArg(_args, a[1], a[2])
    /\ lastOp' = Done([op |-> "setArg", ts |-> FALSE, block |-> "False"], None)
    /\ UNCHANGED <<inp, status, _exe, _platform, _config, _input_files>>
    /\ UNCHANGED <<files, _is_queued, _is_blocked, _process, _command, readme,
                   cwd, gradFile, offset, _gradients, nFrames, runs, nWritten,
                   pc, call, lastSeries, steps, cfgFile, heap>>
    /\ UNCHANGED libVars

NextSetup ==
    \/ DoConstruct
    \/ GenerateConfig
    \/ GenerateArgs
    \/ \E a \in UserArgs : UserSetArg(a)

SpecSetup == InitSetup /\ [][NextSetup]_vars

\* The life of a process object from the constructor call on: it is
\* constructed, started, and its child exits.
NextBuild ==
    \/ DoConstruct
    \/ start(TRUE, TRUE, TRUE)
    \/ \E code \in {"exit0", "exit1"} : EngineExit(code)

SpecBuild == InitSetup /\ [][NextBuild]_vars

----------------------------------------------------------------------------
(* BioSimSpace.Solvent: the solvation functions, their input validation and
   the gmx pipeline behind them. *)

\* key in map
InMap(map, key) == \E p \in map : p[1] = key

\* map[key]
Lookup(map, key) == (CHOOSE p \in map : p[1] = key)[2]

\* map[key] = value
SetItem(map, key, value) == {p \in map : p[1] # key} \cup {<<key, value>>}

\* The solutes passed as the molecule argument: nothing, a molecule, a merged
\* molecule, a system with and without a space property, and an object of
\* another type.
NoSolute == [type |-> "None", merged |-> FALSE, space |-> FALSE]

Solutes ==
    { NoSolute,
      [type |-> "Molecule", merged |-> FALSE, space |-> FALSE],
      [type |-> "Molecule", merged |-> TRUE,  space |-> FALSE],
      [type |-> "System",   merged |-> FALSE, space |-> TRUE],
      [type |-> "System",   merged |-> FALSE, space |-> FALSE],
      [type |-> "int",      merged |-> FALSE, space |-> FALSE] }

\* The map argument: left to the default, or a dictionary (or another object)
\* of the caller's.
DefaultMap == [given |-> FALSE, isDict |-> TRUE, dict |-> EmptyMap]

GivenMap(d) == [given |-> TRUE, isDict |-> TRUE, dict |-> d]

NotADict == [given |-> TRUE, isDict |-> FALSE, dict |-> EmptyMap]

\* A call with a plain molecule, a box of three lengths that holds it, and
\* every other argument at its default; ion_conc is 0.
BaseArgs ==
    [model |-> "spc", molecule |-> [type |-> "Molecule", merged |-> FALSE, space |-> FALSE],
     box |-> "valid", shell |-> "None", map |-> DefaultMap, fits |-> TRUE,
     is_neutral |-> FALSE]

\* The calls made: box is "None", "valid" (three Length values) or "short"
\* (two values); shell is "None" or "Length".
SolventArgs ==
    { [BaseArgs EXCEPT !.molecule = m, !.box = b, !.map = mp] :
        m \in Solutes, b \in {"None", "valid", "short"},
        mp \in {DefaultMap, GivenMap({<<"coordinates", "xyz">>})} }
    \cup { [BaseArgs EXCEPT !.molecule = m, !.shell = "Length"] :
             m \in {NoSolute, BaseArgs.molecule} }
    \cup { [BaseArgs EXCEPT !.molecule = m, !.is_neutral = TRUE] :
             m \in {NoSolute, BaseArgs.molecule} }
    \cup { [BaseArgs EXCEPT !.fits = FALSE],
           [BaseArgs EXCEPT !.map = NotADict],
           [BaseArgs EXCEPT !.map = GivenMap({<<"coordinates", "coordinates1">>}),
                            !.molecule = [type |-> "Molecule", merged |-> TRUE,
                                          space |-> FALSE]],
           [BaseArgs EXCEPT !.model = "tip9p"] }

\* waterModels(): the names collected from the module's namespace.
waterModels == {"spc", "spce", "tip3p", "tip4p", "tip5p"}

\* The try block that reads the box of a system: the name it reads the
\* property from, system, is bound nowhere in the function or the module, so
\* the lookup raises NameError, which the bare except turns into the
\* "no box information" ValueError, whether or not the property exists.
SystemBox(molecule, map) == "ValueError"

\* The solute and box block of _validate_input: the exception raised, or "ok".
SoluteAndBox(a, map) ==
    IF a.molecule.type # "None"
    THEN IF a.molecule.type \notin {"Molecule", "System"} THEN "TypeError"
         ELSE IF a.molecule.type = "System" /\ a.box = "None"
              THEN SystemBox(a.molecule, map)
              ELSE IF a.box = "None" THEN "ValueError" ELSE "ok"
    ELSE IF a.box = "None" THEN "ValueError" ELSE "ok"

\* The coordinates block of _validate_input: the dictionary passed as map is
\* written in place when the molecule is merged.
RemapCoordinates(molecule, map) ==
    IF ~molecule.merged THEN map
    ELSE IF ~InMap(map, "coordinates")
         THEN SetItem(map, "coordinates", "coordinates0")
         ELSE IF Lookup(map, "coordinates") \notin {"coordinates0", "coordinates1"}
              THEN SetItem(map, "coordinates", "coordinates0")
              ELSE map

\* _validate_input: the exception raised or "ok", the shell it returns, and
\* the contents of the map object when it returns or raises.
_validate_input(a, isDict, map) ==
    LET sb == SoluteAndBox(a, map)
        shell == IF a.molecule.type = "None" THEN "None" ELSE a.shell
        failed(exc, m) == [status |-> exc, shell |-> shell, map |-> m]
    IN IF sb # "ok" THEN failed(sb, map)
       ELSE IF a.box = "short" THEN failed("ValueError", map)
       ELSE IF shell \notin {"None", "Length"} THEN failed("ValueError", map)
       ELSE IF ~isDict THEN failed("TypeError", map)
       ELSE IF a.molecule.type = "None" THEN failed("AttributeError", map)
       ELSE LET map2 == RemapCoordinates(a.molecule, map)
            IN IF ~a.fits THEN failed("ValueError", map2)
               ELSE [status |-> "ok", shell |-> shell, map |-> map2]

\* What can happen to _solvate once it has changed directory: a step raises
\* (writing the input files, reading the water box, writing the solvated
\* system, reading the water and ions back), a gmx tool leaves no output, no
\* water is generated, or everything works.
SolvateOutcomes(a) ==
    {"ok", "saveMolecules input", "gmx solvate", "no water", "readMolecules water"}
    \cup (IF a.is_neutral
          THEN {"saveMolecules solvated", "gmx grompp", "gmx genion",
                "readMolecules water_ions"}
          ELSE {})

\* The outcomes after which _solvate changes back before it raises.
ChecksOutput == {"gmx solvate", "no water", "gmx grompp", "gmx genion"}

\* _solvate: the exception raised or "ok", and the directory it leaves the
\* caller in; dir is the directory at the call.
_solvate(a, dir, outcome) ==
    CASE outcome = "ok" -> [status |-> "ok", cwd |-> dir]
      [] outcome = "no water" -> [status |-> "ValueError", cwd |-> dir]
      [] outcome \in ChecksOutput \ {"no water"} ->
           [status |-> "RuntimeError", cwd |-> dir]
      [] OTHER -> [status |-> "IOError", cwd |-> "solvate_dir"]

\* The last step was a call of a solvation function.
SolventOp(fn, a, seen, stage, ret) ==
    [op |-> fn, ts |-> FALSE, block |-> "False", ret |-> ret,
     args |-> a, seen |-> seen, stage |-> stage]

\* solvate(model, ...) and spc(...): the model name is checked, the arguments
\* are validated, and the pipeline runs.  The map object is the caller's
\* dictionary, or the default object of the function called.
Solvate(fn, a) ==
    LET seen == IF a.map.given THEN a.map.dict ELSE _defaults[fn]
        v == _validate_input(a, a.map.isDict, seen)
    IN IF fn = "solvate" /\ a.model \notin waterModels
       THEN /\ lastOp' = SolventOp(fn, a, seen, "solvate", Raise("ValueError"))
            /\ UNCHANGED <<cwd, _defaults>>
       ELSE /\ _defaults' = IF a.map.given THEN _defaults
                            ELSE [_defaults EXCEPT ![fn] = v.map]
            /\ IF v.status # "ok"
               THEN /\ lastOp' = SolventOp(fn, a, seen, "_validate_input",
                                           Raise(v.status))
                    /\ UNCHANGED cwd
               ELSE \E outcome \in SolvateOutcomes(a) :
                      LET s == _solvate(a, cwd, outcome)
                      IN /\ cwd' = s.cwd
                         /\ lastOp' = SolventOp(fn, a, seen,
                               IF s.status = "ok" THEN "return" ELSE "_solvate",
                               IF s.status = "ok" THEN SystemObj(0)
                               ELSE Raise(s.status))

\* A call of a solvation function by the user.
SolvateCall(fn, a) ==
    /\ Solvate(fn, a)
    /\ UNCHANGED <<requirement, _value>>
    /\ UNCHANGED ctorVars
    /\ UNCHANGED <<files, _is_queued, _is_blocked, _process, _command, readme,
                   gradFile, offset, _gradients, nFrames, runs, nWritten, pc,
                   call, lastSeries, steps>>

\* The process constructors made next to the solvation calls.
LibInputs ==
    { BaseInput, [BaseInput EXCEPT !.protocol = "FreeEnergy", !.nPert = 1] }

\* The module has been imported; no process has been constructed.
InitLib ==
    /\ RunInit
    /\ files = {}
    /\ _is_queued = FALSE
    /\ _is_blocked = FALSE
    /\ inp \in LibInputs
    /\ status = "new"
    /\ _exe = ""
    /\ _platform = ""
    /\ _config = <<>>
    /\ _args = <<>>
    /\ _input_files = <<>>
    /\ cfgFile = NoFile
    /\ heap = CallerHeap(inp)

\* Solvation calls and a Somd constructor call, all of which may leave the
\* property map to its default.
NextSolvent ==
    \/ \E fn \in {"solvate", "spc"}, a \in SolventArgs : SolvateCall(fn, a)
    \/ DoConstruct

SpecSolvent == InitLib /\ [][NextSolvent]_vars

----------------------------------------------------------------------------
(* BioSimSpace.Gateway: requirements, their type validation and their
   constraints. *)

\* Python values passed to setValue.  Numbers are whole; NaN is the float
\* that compares False with every number.
IntV(n)   == [tag |-> "int", val |-> <<n>>]
FloatV(n) == [tag |-> "float", val |-> <<n>>]
NaN       == [tag |-> "float", val |-> <<>>]
StrV(s)   == [tag |-> "str", val |-> <<s>>]
BoolV     == [tag |-> "bool", val |-> <<>>]

IsNaN(x) == x.tag = "float" /\ x.val = <<>>

\* a < b on numbers: False when either side is NaN.
Less(a, b) == ~IsNaN(a) /\ ~IsNaN(b) /\ a.val[1] < b.val[1]

\* x in list: == of Python, under which NaN equals no number.
Member(x, list) == ~IsNaN(x) /\ \E y \in list : ~IsNaN(y) /\ y.val[1] = x.val[1]

\* The files on disk, and the names passed in file lists.
OnDisk == {"a.txt", "b.txt"}

FileNames == OnDisk \cup {"missing.txt"}

\* The largest absolute value of a number passed to setValue.
MaxValue == 3

\* The longest file list passed to setValue.
MaxFiles == 2

RECURSIVE SeqsUpTo(_, _)
\* The sequences over S of length at most n.
SeqsUpTo(S, n) ==
    IF n = 0 THEN {<<>>}
    ELSE LET shorter == SeqsUpTo(S, n - 1)
         IN shorter \cup {Append(s, x) : s \in shorter, x \in S}

\* The values passed to setValue.
SetValueArgs ==
    {IntV(n) : n \in -1..MaxValue} \cup {FloatV(n) : n \in -1..MaxValue}
    \cup {NaN, StrV("a.txt"), BoolV, None}
    \cup {List(s) : s \in SeqsUpTo({StrV(f) : f \in FileNames}, MaxFiles)}
    \cup {List(<<IntV(1)>>), List(<<StrV("missing.txt"), IntV(1)>>)}

\* Integer._validate, Float._validate: the validated value or the exception.
Integer_validate(value) ==
    IF value.tag = "int" THEN value ELSE Raise("TypeError")

Float_validate(value) ==
    IF value.tag = "float" THEN value
    ELSE IF value.tag = "int" THEN FloatV(value.val[1])
    ELSE Raise("TypeError")

\* FileSet._validate: every element of a list is type-checked in the loop;
\* the existence test follows the loop, on the name the loop left bound to
\* the last element (unbound for an empty list); a value that is not a list is
\* returned as it is.
FileSet_validate(is_optional, value) ==
    IF is_optional /\ value = None THEN None
    ELSE IF value.tag = "list"
         THEN LET names == value.val
              IN IF \E k \in 1..Len(names) : names[k].tag # "str"
                 THEN Raise("TypeError")
                 ELSE IF names = <<>> THEN Raise("UnboundLocalError")
                 ELSE IF names[Len(names)].val[1] \notin OnDisk
                      THEN Raise("IOError")
                      ELSE value
         ELSE value

\* self._validate(value) of the requirement r.
_validate(r, value) ==
    CASE r.class = "Integer" -> Integer_validate(value)
      [] r.class = "Float" -> Float_validate(value)
      [] OTHER -> FileSet_validate(r._is_optional, value)

IsRaise(x) == x.tag \in {"TypeError", "ValueError", "IOError", "UnboundLocalError"}

\* The constraint checks of setValue: minimum, maximum, allowed values; an
\* absent allowed list is the empty set.
Constrain(r, value) ==
    IF r._min # None /\ Less(value, r._min) THEN Raise("ValueError")
    ELSE IF r._max # None /\ Less(r._max, value) THEN Raise("ValueError")
    ELSE IF r._allowed # {} /\ ~Member(value, r._allowed) THEN Raise("ValueError")
    ELSE value

\* The requirements constructed: the constraints are validated by the
\* constructor, so they are values of the requirement's type.
IntegerReq(min, max, allowed) ==
    [class |-> "Integer", _min |-> min, _max |-> max, _allowed |-> allowed,
     _is_optional |-> FALSE]

FloatReq(min, max, allowed) ==
    [class |-> "Float", _min |-> min, _max |-> max, _allowed |-> allowed,
     _is_optional |-> FALSE]

FileSetReq(optional) ==
    [class |-> "FileSet", _min |-> None, _max |-> None, _allowed |-> {},
     _is_optional |-> optional]

Requirements ==
    { IntegerReq(None, None, {}), IntegerReq(IntV(0), IntV(2), {}),
      IntegerReq(IntV(1), None, {}), IntegerReq(None, None, {IntV(1), IntV(3)}),
      IntegerReq(IntV(0), IntV(2), {IntV(1), IntV(3)}),
      FloatReq(None, None, {}), FloatReq(FloatV(0), FloatV(2), {}),
      FloatReq(None, FloatV(2), {}), FloatReq(None, None, {FloatV(1), FloatV(3)}),
      FloatReq(FloatV(0), FloatV(2), {FloatV(1), FloatV(3)}),
      FileSetReq(FALSE), FileSetReq(TRUE) }

\* The last step was a call on the requirement.
RequirementOp(op, value, ret) ==
    [op |-> op, ts |-> FALSE, block |-> "False", ret |-> ret, arg |-> value]

\* What a requirement call leaves alone.
RequirementFrame ==
    /\ UNCHANGED _defaults
    /\ UNCHANGED ctorVars
    /\ UNCHANGED <<files, _is_queued, _is_blocked, _process, _command, readme,
                   gradFile, offset, _gradients, nFrames, runs, nWritten, pc,
                   call, lastSeries, steps, cwd>>

\* Integer(...), Float(...), FileSet(...): the value starts as None.
Requirement_init(r) ==
    /\ requirement' = r
    /\ _value' = None
    /\ lastOp' = RequirementOp("Requirement.__init__", None, None)
    /\ RequirementFrame

\* setValue(value): validate, check the constraints, then store.
setValue(value) ==
    /\ requirement # NoRequirement
    /\ LET validated == _validate(requirement, value)
           checked == IF IsRaise(validated) \/ requirement.class = "FileSet"
                      THEN validated
                      ELSE Constrain(requirement, validated)
       IN /\ _value' = IF IsRaise(checked) THEN _value ELSE checked
          /\ lastOp' = RequirementOp("setValue", value,
                                     IF IsRaise(checked) THEN checked ELSE None)
    /\ UNCHANGED requirement
    /\ RequirementFrame

NextRequirement ==
    \/ \E r \in Requirements : Requirement_init(r)
    \/ \E value \in SetValueArgs : setValue(value)

SpecRequirement == InitLib /\ [][NextRequirement]_vars

----------------------------------------------------------------------------
(* Properties. *)

IsPrefix(s, t) == Len(s) <= Len(t) /\ SubSeq(t, 1, Len(s)) = s

\* The process and the artifacts a start() that is a no-op must leave alone.
StartFrame ==
    <<_is_queued, _process, runs, _command, readme, files, gradFile, nFrames,
      _gradients, offset, cwd>>

\* C1: start() called while the process is queued or its child is running
\* changes nothing: not the state, the stored command, README.txt, the child
\* (runs counts the children spawned) or any file of the work directory.
C1_StartNoop ==
    [][(lastOp'.op = "start" /\ (_is_queued \/ _process = "running"))
         => UNCHANGED StartFrame]_vars

\* start() has been called on a running process with output on disk, and
\* returned without doing anything.
C1_Witness ==
    /\ lastOp.op = "start" /\ lastOp.ret = None
    /\ _process = "running" /\ TrajFile \in files /\ ReadmeFile \in files

\* The samples a correct read of the present gradients.dat gives.
FileSamples ==
    LET data == SelectSeq(gradFile, LAMBDA l : ~l.comment)
    IN [k \in DOMAIN data |-> data[k].tokens[Len(data[k].tokens)]]

\* C2: once the process has been re-run, getGradient(time_series=True)
\* returns exactly the samples of the new run's gradients.dat, in order:
\* none read during the previous run, and no line of the new file skipped.
C2_RerunReturnsNewRunOnly ==
    (lastOp.op = "getGradient" /\ lastOp.ts /\ runs >= 2)
      => lastOp.ret = (IF FileSamples = <<>> THEN None ELSE List(FileSamples))

\* C3: getGradient(time_series=True) called again while gradients.dat has not
\* changed returns the sequence it returned before and appends nothing.
C3_RepeatedReadIdempotent ==
    [][(lastOp'.op = "getGradient" /\ lastOp'.ts /\ lastSeries.n >= 1)
         => (lastOp'.ret = lastSeries.ret /\ _gradients' = _gradients)]_vars

\* The series has been returned twice from an unchanged file holding a
\* comment and a data line.
C3_Witness ==
    /\ lastOp.op = "getGradient" /\ lastOp.ts /\ lastSeries.n = 2
    /\ lastOp.ret.tag = "list" /\ Len(gradFile) = 2 /\ Len(_gradients) = 1

\* The samples of the accumulated series that come from run r.
SamplesOfRun(g, r) == SelectSeq(g, LAMBDA v : v \div 10 = r)

\* C4: during one run the accumulated series only grows, each earlier value
\* a prefix of the later ones, and after a read every non-comment line of
\* gradients.dat has contributed exactly one sample, its last token, in file
\* order, and no comment line has.
C4_SeriesFollowsFile ==
    [][/\ (runs' = runs => IsPrefix(_gradients, _gradients'))
       /\ (lastOp'.op = "getGradient" /\ GradientFile \in files')
            => SamplesOfRun(_gradients', runs') = FileSamples']_vars

\* The same, for the first run of the process alone.
C4_FirstRun ==
    [][/\ (runs' = runs => IsPrefix(_gradients, _gradients'))
       /\ (lastOp'.op = "getGradient" /\ GradientFile \in files' /\ runs' = 1)
            => _gradients' = FileSamples']_vars

\* C5: an accessor called while its artifact is missing returns None (for
\* getTrajectory: None or a trajectory without frames) and never raises.
C5_MissingArtifactGivesNone ==
    /\ (lastOp.op = "getGradient" /\ GradientFile \notin files)
         => lastOp.ret = None
    /\ (lastOp.op \in {"getTime", "getSystem"} /\ TrajFile \notin files)
         => lastOp.ret = None
    /\ (lastOp.op = "getTrajectory" /\ TrajFile \notin files)
         => lastOp.ret \in {None, TrajectoryObj(0)}

\* The call is one the blocking policy makes wait for the child.
MustBlock(c) == c.block = "True" \/ (c.block = "AUTO" /\ _is_blocked)

\* C6: getSystem, getTrajectory, getTime and getGradient return only after
\* the child has exited when block=True, or block="AUTO" and the blocking
\* flag is set, and never wait otherwise.  (getTime on a Minimisation
\* protocol, which returns at once, is left out.)
C6_BlockingPolicy ==
    /\ (/\ lastOp.op \in {"getSystem", "getTrajectory", "getTime", "getGradient"}
        /\ ~(lastOp.op = "getTime" /\ inp.protocol = "Minimisation")
        /\ MustBlock(lastOp))
         => _process # "running"
    /\ (pc = "waiting" /\ call.op # "wait") => MustBlock(call)

\* C7: the caller's directory after start() is the one before it.
C7_StartRestoresDirectory ==
    [][lastOp'.op = "start" => cwd' = cwd]_vars

\* C8, as claimed: the state changes only from Queued (or not yet started)
\* to Running and from Running to Finished or Errored.
C8_TerminalStates ==
    [][State' # State =>
         <<State, State'>> \in {<<"Queued", "Running">>, <<"NotStarted", "Running">>,
                                <<"Running", "Finished">>, <<"Running", "Errored">>}]_vars

\* C8, amended: the state changes only when the child exits (Running to
\* Finished or Errored) and when start() spawns a child for a process that
\* is not queued and has none running: not yet started, Finished or Errored.
C8_Transitions ==
    [][State' # State =>
         \/ /\ State = "Running" /\ State' \in {"Finished", "Errored"}
            /\ lastOp'.op = "engine"
         \/ /\ State \in {"NotStarted", "Finished", "Errored"} /\ State' = "Running"
            /\ lastOp'.op = "start"]_vars

\* A process whose child had exited has been started again.
C8_Witness ==
    lastOp.op = "start" /\ runs = 2 /\ State = "Running" /\ lastOp.ret = Self

----------------------------------------------------------------------------
(* Construction. *)

\* The platform check and the executable lookup both passed: the
\* constructor stored the executable.
LookupPassed == _exe # ""

\* A configuration line that is the 'lambda array' key followed by the
\* decimal text of each value of vals, in the order of vals.
IsLambdaArrayLine(line, vals) ==
    /\ Len(line) = Len(vals) + 1
    /\ line[1] = "lambda array"
    /\ \A j \in 1..Len(vals) : line[j + 1] = ToString(vals[j])

\* C9: a FreeEnergy process whose system does not hold exactly one
\* perturbable molecule is not constructed and leaves no file behind (the
\* ValueError of _setup when the earlier checks pass); with exactly one,
\* the perturbation file is written, construction succeeds when the
\* coordinate and topology files can be written, and the configuration then
\* holds the 'lambda array' line with every lambda value in its original
\* order, directly followed by the 'lambda_val' line.
C9_FreeEnergyPerturbable ==
    (status # "new" /\ inp.protocol = "FreeEnergy") =>
        /\ inp.nPert # 1 =>
              /\ status # "ok"
              /\ files = {}
              /\ LookupPassed => status = "ValueError"
        /\ (inp.nPert = 1 /\ LookupPassed) =>
              /\ PertFile \in files
              /\ (inp.rstOK /\ inp.prmOK) => status = "ok"
        /\ (inp.nPert = 1 /\ status = "ok") =>
              \E k \in 1..(Len(_config) - 1) :
                  /\ IsLambdaArrayLine(_config[k], inp.lambdaVals)
                  /\ _config[k + 1] = <<"lambda_val", ToString(inp.lambda)>>

\* A FreeEnergy construction was refused for a system with two perturbable
\* molecules, and nothing was written.
C9_Witness ==
    /\ status = "ValueError" /\ inp.protocol = "FreeEnergy" /\ inp.nPert = 2
    /\ LookupPassed /\ files = {} /\ lastOp.op = "__init__"

\* A FreeEnergy construction succeeded for lambda values that are not in
\* increasing order.
C9_WitnessBuilt ==
    /\ status = "ok" /\ inp.protocol = "FreeEnergy" /\ inp.nPert = 1
    /\ inp.lambdaVals = <<10, 0>> /\ PertFile \in files /\ ConfigFile \in files

\* The executable the constructor looks for is not a file.
ExeMissing ==
    IF inp.exe = "None" THEN ~inp.bundledIsFile ELSE ~inp.exeIsFile

\* C10: when the executable is not found, construction raises and no input
\* file exists afterwards: no coordinate, topology, perturbation or
\* configuration file, and no configuration or argument was generated.
C10_MissingExeWritesNothing ==
    (status # "new" /\ ExeMissing) =>
        /\ status \in {"MissingSoftwareError", "IOError", "TypeError", "ValueError"}
        /\ lastOp.ret = Raise(status)
        /\ files = {}
        /\ _config = <<>>
        /\ _args = <<>>
        /\ ~LookupPassed

\* A construction with a valid platform stopped at the executable lookup.
C10_Witness ==
    /\ status \in {"MissingSoftwareError", "IOError"} /\ ExeMissing
    /\ _platform # "" /\ files = {} /\ lastOp.op = "__init__"

----------------------------------------------------------------------------
(* Setup passes. *)

\* The argument table the claim describes for the present process.
ExpectedArgs ==
    << <<"-c", "somd.rst7">>, <<"-t", "somd.prm7">> >>
    \o (IF inp.protocol = "FreeEnergy" THEN << <<"-m", "somd.pert">> >> ELSE <<>>)
    \o << <<"-C", "somd.cfg">>, <<"-p", _platform>> >>

\* C11: after the constructor's setup and after every later _generate_args
\* the argument table is exactly -c, -t, (-m only for FreeEnergy), -C, -p in
\* this order, whatever flags the table held before: nothing is left over
\* and no flag appears twice.
C11_ArgTable ==
    (status = "ok" /\ lastOp.op \in {"__init__", "_generate_args"}) =>
        /\ _args = ExpectedArgs
        /\ _platform \in {"CPU", "CUDA", "OpenCL"}
        /\ \A j, k \in DOMAIN _args : _args[j][1] = _args[k][1] => j = k
        /\ inp.protocol # "FreeEnergy" => \A k \in DOMAIN _args : _args[k][1] # "-m"

\* The table of a Production process on the CUDA platform has been rebuilt.
C11_Witness ==
    /\ lastOp.op = "_generate_args" /\ inp.protocol = "Production"
    /\ _platform = "CUDA" /\ Len(_args) = 4 /\ _args[4] = <<"-p", "CUDA">>

----------------------------------------------------------------------------
(* Time records. *)

ExpectedTimes(n) == [x \in 1..n |-> 100 * inp.timeStep * x]

\* What getTime is to return for a trajectory of n frames, as claimed.
ExpectedTime(ts, n) ==
    IF n = 0 THEN None
    ELSE IF ts THEN List(ExpectedTimes(n)) ELSE Value(ExpectedTimes(n)[n])

\* getTime has returned from a trajectory object (creating it did not fail).
TimeReturned == lastOp.op = "getTime" /\ lastOp.ret.tag # "AttributeError"

\* What getGradient is to return when the accumulated series is g.
ExpectedGradient(ts, g) ==
    IF g = <<>> THEN None ELSE IF ts THEN List(g) ELSE Value(g[Len(g)])

\* The gradient part of C13: the single value is the last element of the
\* series, and both are absent together.
GradientLastOfSeries ==
    lastOp.op = "getGradient" =>
        lastOp.ret = IF GradientFile \in files
                     THEN ExpectedGradient(lastOp.ts, _gradients) ELSE None

C13_WitnessGradient ==
    /\ lastOp.op = "getGradient" /\ ~lastOp.ts /\ Len(_gradients) = 2
    /\ lastOp.ret = Value(_gradients[2]) /\ _gradients[1] # _gradients[2]

----------------------------------------------------------------------------
(* Stale output. *)

\* C14: a start() that spawns a child leaves none of the known artifacts of
\* an earlier run in the work directory, whatever the protocol, and an
\* artifact that is absent comes into being only by a write of the engine.
C14_CleanAtSpawn ==
    [][/\ (lastOp'.op = "start" /\ runs' = runs + 1)
            => files' \cap RunArtifacts = {}
       /\ \A f \in RunArtifacts :
            (f \notin files /\ f \in files') => lastOp'.op = "engine"]_vars

\* The same for a FreeEnergy process alone.
C14_CleanAtSpawnFreeEnergy ==
    [][(lastOp'.op = "start" /\ runs' = runs + 1 /\ inp.protocol = "FreeEnergy")
            => files' \cap RunArtifacts = {}]_vars

----------------------------------------------------------------------------
(* wait() *)

\* C15: wait() returns only once the child is no longer running, it returns
\* None and raises nothing whatever the exit status, afterwards isRunning()
\* is false and isError() is true exactly for a nonzero exit status, and a
\* wait() whose child has exited does return.
C15_WaitReturnsAfterExit ==
    /\ [](lastOp.op = "wait" =>
            /\ lastOp.ret = None
            /\ ~isRunning
            /\ _process \in {"None", "exit0", "exit1"}
            /\ isError <=> _process = "exit1")
    /\ ((pc = "waiting" /\ _process \in {"exit0", "exit1"}) ~> (pc = "idle"))

\* wait() has returned for a child of the second run that exited with a
\* nonzero status.
C15_Witness ==
    /\ lastOp.op = "wait" /\ lastOp.ret = None /\ _process = "exit1"
    /\ isError /\ runs = 2 /\ pc = "idle"

----------------------------------------------------------------------------
(* Generated configurations. *)

\* The protocol is one _generate_config writes lines for.
Generated == inp.protocol \in {"Minimisation", "Equilibration", "Production", "FreeEnergy"}

HasOnly(line) ==
    /\ \E k \in DOMAIN _config : _config[k] = line
    /\ \A j, k \in DOMAIN _config :
         (_config[j][1] = line[1] /\ _config[k][1] = line[1]) => j = k

\* n is the least whole number of cycles of 100 steps that covers the run
\* time: ceil(run_time / (time_step * 100)).
IsCycleCount(n) ==
    /\ n * (100 * inp.timeStep) >= inp.runTime
    /\ (n - 1) * (100 * inp.timeStep) < inp.runTime

\* C17: the configuration of an Equilibration, Production or FreeEnergy
\* process holds 'ncycles = ceil(run_time / (time_step * 100))', rounded up
\* and never down, and 'nmoves = 100'; that of a Minimisation holds
\* 'ncycles = 1' and 'nmoves = 1'.
C17_CycleCount ==
    (status = "ok" /\ Generated) =>
        IF inp.protocol = "Minimisation"
        THEN HasOnly(<<"ncycles", "1">>) /\ HasOnly(<<"nmoves", "1">>)
        ELSE /\ \E n \in 1..50 : IsCycleCount(n) /\ HasOnly(<<"ncycles", ToString(n)>>)
             /\ HasOnly(<<"nmoves", "100">>)

\* A Production run of 5.25 cycles has been given six.
C17_Witness ==
    /\ status = "ok" /\ inp.protocol = "Production"
    /\ inp.runTime = 1050 /\ inp.timeStep = 2
    /\ \E k \in DOMAIN _config : _config[k] = <<"ncycles", "6">>

\* A run of 10 ps with a time step of 2 fs has been given fifty cycles.
C17_WitnessFifty ==
    /\ status = "ok" /\ inp.protocol = "FreeEnergy"
    /\ inp.runTime = 10000 /\ inp.timeStep = 2
    /\ \E k \in DOMAIN _config : _config[k] = <<"ncycles", "50">>

\* The number of configuration lines with the key.
CountKey(key) == Cardinality({ k \in DOMAIN _config : _config[k][1] = key })

\* The configuration holds the line.
HasLine(line) == \E k \in DOMAIN _config : _config[k] = line

\* The ensemble of the protocol is the constant-pressure one.
ConstantPressure ==
    inp.protocol \in {"Production", "FreeEnergy"} /\ inp.ensemble = "NPT"

\* C18: a generated configuration has at most one barostat line; the line is
\* 'barostat = True' exactly when the ensemble is constant-pressure and the
\* system has water and a periodic box; 'pressure = 1 atm' is there exactly
\* when the barostat is enabled; Equilibration always has 'barostat = False'.
C18_BarostatPolicy ==
    (status = "ok" /\ Generated) =>
        /\ CountKey("barostat") = (IF inp.protocol = "Minimisation" THEN 0 ELSE 1)
        /\ CountKey("barostat") = 1 =>
             /\ HasLine(<<"barostat", "True">>)
                  <=> (ConstantPressure /\ inp.has_water /\ inp.has_box)
             /\ HasLine(<<"barostat", "False">>)
                  <=> ~(ConstantPressure /\ inp.has_water /\ inp.has_box)
        /\ HasLine(<<"pressure", "1 atm">>) <=> HasLine(<<"barostat", "True">>)
        /\ CountKey("pressure") <= 1
        /\ inp.protocol = "Equilibration" => HasLine(<<"barostat", "False">>)

\* A constant-pressure Production run on a solvated periodic system has its
\* barostat and pressure lines.
C18_Witness ==
    /\ status = "ok" /\ inp.protocol = "Production" /\ inp.ensemble = "NPT"
    /\ inp.has_water /\ inp.has_box
    /\ HasLine(<<"barostat", "True">>) /\ HasLine(<<"pressure", "1 atm">>)

\* A constant-pressure FreeEnergy run on a system with water but no box has
\* its barostat disabled.
C18_WitnessNoBox ==
    /\ status = "ok" /\ inp.protocol = "FreeEnergy" /\ inp.ensemble = "NPT"
    /\ inp.has_water /\ ~inp.has_box
    /\ HasLine(<<"barostat", "False">>) /\ ~HasLine(<<"pressure", "1 atm">>)

\* C19: every generated configuration has exactly one cutoff-type line,
\* 'cutoffnonperiodic' when the system lacks a box or water and
\* 'cutoffperiodic' otherwise, and the next line is
\* 'cutoff distance = 10 angstrom'.
C19_CutoffPolicy ==
    (status = "ok" /\ Generated) =>
        /\ CountKey("cutoff type") = 1
        /\ CountKey("cutoff distance") = 1
        /\ \A k \in DOMAIN _config :
             _config[k][1] = "cutoff type" =>
               /\ _config[k][2] = (IF inp.has_box /\ inp.has_water
                                   THEN "cutoffperiodic" ELSE "cutoffnonperiodic")
               /\ k + 1 \in DOMAIN _config
               /\ _config[k + 1] = <<"cutoff distance", "10 angstrom">>

\* A Minimisation of a periodic system without water has the non-periodic
\* cut-off followed by the distance.
C19_Witness ==
    /\ status = "ok" /\ inp.protocol = "Minimisation"
    /\ inp.has_box /\ ~inp.has_water
    /\ Len(_config) = 8
    /\ _config[7] = <<"cutoff type", "cutoffnonperiodic">>
    /\ _config[8] = <<"cutoff distance", "10 angstrom">>

\* An Equilibration of a solvated periodic system has the periodic cut-off.
C19_WitnessPeriodic ==
    /\ status = "ok" /\ inp.protocol = "Equilibration"
    /\ inp.has_box /\ inp.has_water
    /\ HasLine(<<"cutoff type", "cutoffperiodic">>)

\* The configuration has the seed line with the supplied value exactly when
\* a seed was supplied.
SeedLineIffSeeded ==
    /\ HasLine(<<"random seed", ToString(inp.seed)>>) <=> inp.is_seeded
    /\ CountKey("random seed") = (IF inp.is_seeded THEN 1 ELSE 0)

\* C20: every generated configuration (Minimisation, Equilibration,
\* Production, FreeEnergy) holds 'random seed = <seed>' with the supplied
\* value if and only if a seed was supplied to the process.
C20_SeedLine == (status = "ok" /\ Generated) => SeedLineIffSeeded

\* The same rule for the three dynamics protocols only.
C20_SeedLineDynamics ==
    (status = "ok" /\ inp.protocol \in {"Equilibration", "Production", "FreeEnergy"})
        => SeedLineIffSeeded

\* A seeded Minimisation process has been set up without a seed line.
C20_SeededMinimisation ==
    /\ status = "ok" /\ inp.protocol = "Minimisation" /\ inp.is_seeded
    /\ Len(_config) = 8 /\ CountKey("random seed") = 0

----------------------------------------------------------------------------
(* Custom configurations, rejected protocols, the caller's system. *)

\* C21: with a Custom protocol the configuration of the constructed process
\* is the caller's sequence of raw lines, line for line, whatever the box,
\* the water and the seed, and <name>.cfg holds that sequence.
C21_CustomVerbatim ==
    (status = "ok" /\ inp.protocol = "Custom") =>
        /\ cfgFile = [exists |-> TRUE, lines |-> inp.custom]
        /\ ConfigFile \in files
        /\ lastOp.op = "__init__" => _config = inp.custom

\* A seeded Custom process on a solvated periodic system holds its three raw
\* lines, generator keys included, in the caller's order.
C21_Witness ==
    /\ status = "ok" /\ inp.protocol = "Custom" /\ lastOp.op = "__init__"
    /\ inp.is_seeded /\ inp.has_box /\ inp.has_water
    /\ Len(inp.custom) = 3
    /\ _config[2] = <<"random seed", "7">>
    /\ cfgFile.lines[3] = <<"cutoff type", "cutoffperiodic">>

\* The protocol is one the constructor rejects as incompatible: an
\* equilibration that is not at constant temperature or asks for restraints,
\* or a protocol that is none of the five variants.
Incompatible ==
    \/ inp.protocol = "Equilibration" /\ (~inp.constTemp \/ inp.restrained)
    \/ inp.protocol \notin
         {"Minimisation", "Equilibration", "Production", "FreeEnergy", "Custom"}

\* C22: a constructor call with an incompatible protocol raises the
\* incompatibility error; no configuration file is written, the argument
\* table is not built and no child is ever spawned for the object.
C22_IncompatibleRejected ==
    /\ status = "IncompatibleError" => Incompatible
    /\ (Incompatible /\ status # "new") =>
         /\ status = "IncompatibleError"
         /\ lastOp = Done([op |-> "__init__", ts |-> FALSE, block |-> "False"],
                          Raise("IncompatibleError"))
         /\ ConfigFile \notin files
         /\ ~cfgFile.exists
         /\ _config = <<>>
         /\ _args = <<>>
         /\ _process = "None" /\ runs = 0 /\ steps = <<>>

\* A restrained equilibration has been rejected after its coordinate and
\* topology files were written.
C22_Witness ==
    /\ status = "IncompatibleError"
    /\ inp.protocol = "Equilibration" /\ inp.constTemp /\ inp.restrained
    /\ files = {RstFile, TopFile}
    /\ _args = <<>>

\* A protocol of an unsupported class has been rejected.
C22_WitnessUnsupported ==
    /\ status = "IncompatibleError" /\ inp.protocol = "Unsupported"

\* A compatible process has been constructed, started and has exited.
C22_WitnessStarted ==
    /\ status = "ok" /\ inp.protocol = "Equilibration" /\ runs = 2
    /\ _process = "exit0"

\* C23: setup never changes the caller's system.  The object the caller
\* holds, which self._system refers to, has the molecules and residue names
\* it was passed with; the lambda = 0 molecule and the 'WAT' residue names
\* are in the working copy only.
C23_CallerSystemUntouched ==
    /\ heap[1] = [waters |-> inp.waters,
                  pert |-> [k \in 1..inp.nPert |-> "merged"]]
    /\ status = "ok" =>
         /\ DOMAIN heap = {1, 2}
         /\ heap[2].waters = [k \in DOMAIN inp.waters |-> "WAT"]
         /\ heap[2].pert = IF inp.protocol = "FreeEnergy"
                           THEN <<"lambda0">> ELSE <<>>

\* A free-energy process on a system with two waters has been set up: the
\* working copy differs from the caller's system in the waters and in the
\* perturbable molecule.
C23_Witness ==
    /\ status = "ok" /\ inp.protocol = "FreeEnergy"
    /\ inp.waters = <<"HOH", "SOL">>
    /\ heap[2] = [waters |-> <<"WAT", "WAT">>, pert |-> <<"lambda0">>]
    /\ heap[1] = [waters |-> <<"HOH", "SOL">>, pert |-> <<"merged">>]
    /\ RstFile \in files /\ TopFile \in files

----------------------------------------------------------------------------
(* The platform argument. *)

\* The keyword each platform string of the model stands for; "" for a string
\* that names no platform.
ExpectedKeyword ==
    LET c == inp.platform.chars
    IN CASE c = <<"C", "P", "U">> -> "CPU"
         [] c = <<"c", "u", " ", "d", "a">> -> "CUDA"
         [] c = <<"o", "p", "e", "n", "c", "l">> -> "OpenCL"
         [] c = <<" ", "O", "p", "e", "n", " ", "C", "L">> -> "OpenCL"
         [] OTHER -> ""

\* C24: a platform that is not a string raises a type error and a string that
\* names none of CPU, CUDA, OPENCL once spaces are removed and letters
\* upper-cased raises a value error, both before any file is written; any
\* other string gives the '-p' value CPU, CUDA or OpenCL, whatever its case
\* and spacing.
C24_PlatformNormalised ==
    status # "new" =>
        /\ ~inp.platform.isStr =>
             /\ status = "TypeError" /\ lastOp.ret = Raise("TypeError")
             /\ files = {} /\ _platform = "" /\ _args = <<>>
        /\ (inp.platform.isStr /\ ExpectedKeyword = "") =>
             /\ status = "ValueError" /\ lastOp.ret = Raise("ValueError")
             /\ files = {} /\ _platform = "" /\ _args = <<>>
        /\ (inp.platform.isStr /\ ExpectedKeyword # "") =>
             /\ status # "TypeError"
             /\ _platform = ExpectedKeyword
             /\ status = "ok" =>
                  /\ _args[Len(_args)] = <<"-p", ExpectedKeyword>>
                  /\ \A k \in 1..(Len(_args) - 1) : _args[k][1] # "-p"

\* The platform " Open CL" has given the flag value OpenCL.
C24_Witness ==
    /\ status = "ok"
    /\ inp.platform.chars = <<" ", "O", "p", "e", "n", " ", "C", "L">>
    /\ _args[Len(_args)] = <<"-p", "OpenCL">>

\* The platforms "gpu" and a non-string have been rejected.
C24_WitnessValueError ==
    /\ status = "ValueError" /\ inp.platform.chars = <<"g", "p", "u">> /\ files = {}

C24_WitnessTypeError ==
    /\ status = "TypeError" /\ ~inp.platform.isStr /\ files = {}

----------------------------------------------------------------------------
(* The order of the steps of start(). *)

\* The position of a step in the record of the last start(); 0 if it did not
\* happen.
StepAt(name) ==
    IF \E k \in DOMAIN steps : steps[k] = name
    THEN CHOOSE k \in DOMAIN steps : steps[k] = name
    ELSE 0

RECURSIVE Flatten(_)
\* The flags and values of a table, one after the other.
Flatten(table) ==
    IF table = <<>> THEN <<>>
    ELSE <<table[1][1], table[1][2]>> \o Flatten(Tail(table))

\* C25: a start() that spawns a child clears the stale output, enters the
\* work directory, writes README.txt with the executable followed by the
\* arguments in table order, starts the timer and spawns the child, in this
\* order; no start() spawns a child without having cleared and logged first,
\* and README.txt is written once per start().
C25_StartOrder ==
    [][ (lastOp'.op = "start" /\ ~_is_queued /\ _process # "running") =>
          /\ \A name \in {"_clear_output", "chdir", "README.txt", "timer", "spawn"} :
               Cardinality({k \in DOMAIN steps' : steps'[k] = name}) <= 1
          /\ (runs' = runs + 1) <=> (\E k \in DOMAIN steps' : steps'[k] = "spawn")
          /\ (runs' = runs + 1) =>
               /\ SubSeq(steps', 1, 5) =
                    <<"_clear_output", "chdir", "README.txt", "timer", "spawn">>
               /\ ReadmeFile \in files'
               /\ readme' = <<_exe>> \o Flatten(_args)
               /\ _command' = readme'
               /\ files' \cap {"sim_restart.s3", "SYSTEM.s3", TrajFile} = {}
               /\ nFrames' = 0
          /\ (runs' = runs) =>
               /\ _process' = _process
               /\ steps'[1] = "_clear_output"
               /\ files' \cap {"sim_restart.s3", "SYSTEM.s3", TrajFile} = {}
      ]_vars

\* A second start() has spawned a child after deleting the trajectory of the
\* first run and logging the command of a free-energy process.
C25_Witness ==
    /\ lastOp.op = "start" /\ runs = 2 /\ _process = "running"
    /\ inp.protocol = "FreeEnergy"
    /\ steps = <<"_clear_output", "chdir", "README.txt", "timer", "spawn",
                 "stderr", "chdir back">>
    /\ Len(readme) = 11 /\ readme[2] = "-c" /\ readme[10] = "-p"
    /\ TrajFile \notin files

\* A start() whose README.txt could not be written has spawned nothing.
C25_WitnessNoLog ==
    /\ lastOp.op = "start" /\ lastOp.ret = Raise("OSError")
    /\ steps = <<"_clear_output", "chdir">> /\ _process = "None" /\ runs = 0

\* C26: the default property map of solvate, spc and the Somd constructor is
\* one object shared by every call that leaves the argument out, and it is
\* never written: each default stays the empty dictionary, and a call that
\* leaves the map out finds it empty.
C26_DefaultMapNeverMutated ==
    /\ \A f \in Functions : _defaults[f] = EmptyMap
    /\ (lastOp.op \in {"solvate", "spc"} /\ ~lastOp.args.map.given)
          => lastOp.seen = EmptyMap

\* C26: the dictionary a caller passes is the object validation writes to
\* when it is not the default: the defaults are untouched by such a call.
C26_GivenMapLeavesDefaults ==
    [][(lastOp'.op \in {"solvate", "spc"} /\ lastOp'.args.map.given)
          => _defaults' = _defaults]_vars

\* C26: a later call that leaves the map out finds the key an earlier call
\* with a merged molecule wrote into the default.
C26_Witness ==
    /\ lastOp.op \in {"solvate", "spc"}
    /\ ~lastOp.args.map.given
    /\ ~lastOp.args.molecule.merged
    /\ InMap(lastOp.seen, "coordinates")

\* C29: a call of a solvation function leaves the caller in the directory it
\* was called from, on normal return and on every failure of a step of the
\* pipeline.
C29_DirectoryRestored ==
    [][lastOp'.op \in {"solvate", "spc"} => cwd' = cwd]_vars

\* C29: the directory is restored on normal return, when a gmx tool leaves no
\* output and when no water is generated.
C29_DirectoryRestoredWhenChecked ==
    [][(/\ lastOp'.op \in {"solvate", "spc"}
        /\ lastOp'.ret.tag \in {"System", "RuntimeError", "ValueError"})
          => cwd' = cwd]_vars

\* C29: a step of the pipeline raised and the caller is left in the work
\* directory.
C29_Witness ==
    /\ lastOp.op \in {"solvate", "spc"}
    /\ lastOp.stage = "_solvate"
    /\ lastOp.ret = Raise("IOError")
    /\ cwd = "solvate_dir"

\* The arguments other than molecule and box are valid.
OtherArgsValid(fn, a) ==
    /\ fn = "solvate" => a.model \in waterModels
    /\ a.shell \in {"None", "Length"}
    /\ a.map.isDict
    /\ a.fits

\* C30: validation accepts every documented solute mode: with no molecule and
\* a box of three lengths it returns without raising, and with a system and
\* no box it takes the box from the system's space property, raising the
\* "no box information" error only when the system has none.
C30_SoluteModesAccepted ==
    (lastOp.op \in {"solvate", "spc"} /\ OtherArgsValid(lastOp.op, lastOp.args)) =>
        LET a == lastOp.args
            rejected == lastOp.stage = "_validate_input"
        IN /\ (a.molecule.type = "None" /\ a.box = "valid") => ~rejected
           /\ (a.molecule.type = "System" /\ a.box = "None") =>
                 (rejected <=> ~a.molecule.space)

\* C30: a molecule or a system passed with a box of three lengths that holds
\* it passes validation, and a call with neither a box nor a system to take
\* one from is rejected with ValueError.
C30_BoxGivenAccepted ==
    (lastOp.op \in {"solvate", "spc"} /\ OtherArgsValid(lastOp.op, lastOp.args)) =>
        LET a == lastOp.args
        IN /\ (a.molecule.type \in {"Molecule", "System"} /\ a.box = "valid")
                 => lastOp.stage # "_validate_input"
           /\ (a.molecule.type \in {"None", "Molecule"} /\ a.box = "None")
                 => (lastOp.stage = "_validate_input"
                     /\ lastOp.ret = Raise("ValueError"))

\* C30: a water box was asked for (no molecule, a box of three lengths) and
\* validation raised AttributeError.
C30_WitnessWaterBox ==
    /\ lastOp.op = "spc"
    /\ lastOp.args.molecule.type = "None"
    /\ lastOp.args.box = "valid"
    /\ lastOp.stage = "_validate_input"
    /\ lastOp.ret = Raise("AttributeError")

\* C30: a system that has a space property was passed without a box and
\* validation raised the "no box information" ValueError.
C30_WitnessSystemBox ==
    /\ lastOp.op = "spc"
    /\ lastOp.args.molecule.type = "System"
    /\ lastOp.args.molecule.space
    /\ lastOp.args.box = "None"
    /\ lastOp.stage = "_validate_input"
    /\ lastOp.ret = Raise("ValueError")

\* The stored value v meets the constraints of the requirement r.
MeetsConstraints(r, v) ==
    /\ v.tag = (IF r.class = "Integer" THEN "int" ELSE "float")
    /\ r._min # None => (~IsNaN(v) /\ v.val[1] >= r._min.val[1])
    /\ r._max # None => (~IsNaN(v) /\ v.val[1] <= r._max.val[1])
    /\ r._allowed # {} => v \in r._allowed

\* C27: the stored value of an Integer or Float requirement is None or a
\* value of the requirement's type that is at least the minimum, at most the
\* maximum and one of the allowed values.
C27_StoredValueMeetsConstraints ==
    requirement.class \in {"Integer", "Float"} =>
        (_value = None \/ MeetsConstraints(requirement, _value))

\* C27: a setValue that raises leaves the stored value as it was.
C27_FailedSetKeepsValue ==
    [][(lastOp'.op = "setValue" /\ IsRaise(lastOp'.ret)) => _value' = _value]_vars

\* C27: the stored value meets the constraints whenever it is an ordinary
\* number.
C27_OrdinaryValueMeetsConstraints ==
    (requirement.class \in {"Integer", "Float"} /\ _value # None /\ ~IsNaN(_value))
        => MeetsConstraints(requirement, _value)

\* C27: NaN was set on a Float requirement with a minimum and was stored.
C27_WitnessNaN ==
    /\ requirement.class = "Float"
    /\ requirement._min # None
    /\ lastOp.op = "setValue"
    /\ IsNaN(lastOp.arg)
    /\ lastOp.ret = None
    /\ IsNaN(_value)

\* C27: a value below the minimum was refused after an accepted one, which
\* is still stored.
C27_WitnessRefused ==
    /\ requirement.class = "Integer"
    /\ requirement._min # None
    /\ lastOp.op = "setValue"
    /\ lastOp.arg.tag = "int"
    /\ lastOp.arg.val[1] < requirement._min.val[1]
    /\ lastOp.ret = Raise("ValueError")
    /\ _value # None

\* v is a list, not empty, of strings that all name files on disk.
IsExistingFileList(v) ==
    /\ v.tag = "list"
    /\ v.val # <<>>
    /\ \A k \in 1..Len(v.val) :
          v.val[k].tag = "str" /\ v.val[k].val[1] \in OnDisk

\* C28: the stored value of a FileSet that is not optional is a list of
\* strings that all name files on disk.
C28_FileSetStoresExistingFiles ==
    (requirement.class = "FileSet" /\ ~requirement._is_optional /\ _value # None)
        => IsExistingFileList(_value)

\* C28: a value that is not such a list is refused with TypeError or IOError
\* and the stored value stays as it was.
C28_BadFileSetRejected ==
    [][(/\ lastOp'.op = "setValue"
        /\ requirement.class = "FileSet"
        /\ ~requirement._is_optional
        /\ ~IsExistingFileList(lastOp'.arg))
          => (/\ lastOp'.ret.tag \in {"TypeError", "IOError"}
              /\ _value' = _value)]_vars

\* C28: a list whose last file exists and whose elements are all strings is
\* stored, and a list whose last file is missing is refused with IOError.
C28_LastFileChecked ==
    [][(/\ lastOp'.op = "setValue"
        /\ requirement.class = "FileSet"
        /\ lastOp'.arg.tag = "list"
        /\ lastOp'.arg.val # <<>>
        /\ \A k \in 1..Len(lastOp'.arg.val) : lastOp'.arg.val[k].tag = "str")
          => LET names == lastOp'.arg.val
             IN IF names[Len(names)].val[1] \in OnDisk
                THEN lastOp'.ret = None /\ _value' = lastOp'.arg
                ELSE lastOp'.ret = Raise("IOError") /\ _value' = _value]_vars

\* C28: a list with a missing file before an existing one was stored.
C28_WitnessMissingStored ==
    /\ requirement.class = "FileSet"
    /\ ~requirement._is_optional
    /\ lastOp.op = "setValue"
    /\ lastOp.ret = None
    /\ _value = List(<<StrV("missing.txt"), StrV("a.txt")>>)

\* C28: a string was stored in place of a list.
C28_WitnessNotAList ==
    /\ requirement.class = "FileSet"
    /\ ~requirement._is_optional
    /\ lastOp.op = "setValue"
    /\ lastOp.ret = None
    /\ _value = StrV("a.txt")

====
